---- MODULE Spec2Model ----
(***************************************************************************)
(* A model of the streaming ZIP reader of rs-async-zip: the type-state     *)
(* entry reader (base/read/stream.rs), the record codecs and extra-field   *)
(* parser (spec/parse.rs, spec/extra_field.rs) and the streaming central   *)
(* directory reader (base/read/cd.rs), over a forward-only byte source.    *)
(*                                                                         *)
(* Bytes are numbers 0..255.  A u16 is a number.  A u32 or u64 read from   *)
(* the wire is kept as its little-endian byte tuple (4 or 8 bytes), since  *)
(* 0xFFFFFFFF does not fit the checker's integers; equality of values is   *)
(* equality of tuples, and a value is turned into a length by AsLen.       *)
(* Option<T> is <<>> for None and <<x>> for Some(x).                       *)
(***************************************************************************)
EXTENDS Integers, Sequences, FiniteSets, TLC

(* ------------------------------ bounds -------------------------------- *)

MaxEntries == 2
MaxBody == 1
MaxNameLen == 1
MaxCommentLen == 1
MaxRead == 2
MaxFields == 2

(* ------------------- wire constants (spec/consts.rs) ------------------ *)

SIGNATURE_LENGTH == 4
LFH_SIGNATURE == 67324752
CDH_SIGNATURE == 33639248
EOCDR_SIGNATURE == 101010256
ZIP64_EOCDR_SIGNATURE == 101075792
ZIP64_EOCDL_SIGNATURE == 117853008
DATA_DESCRIPTOR_SIGNATURE == 134695760
DATA_DESCRIPTOR_LENGTH == 12
ZIP64_DATA_DESCRIPTOR_LENGTH == 20
LFH_LENGTH == 26
CDH_LENGTH == 42
EOCDR_LENGTH == 18
ZIP64_EOCDR_LENGTH == 52
ZIP64_EOCDL_LENGTH == 16
SKIP_BUFFER == 2048
NON_ZIP64_MAX_SIZE == <<255, 255, 255, 255>>
U64_MAX == <<255, 255, 255, 255, 255, 255, 255, 255>>
DISK_SENTINEL == 65535
ZIP64_EXTENDED_INFORMATION_EXTRA_FIELD == 1
INFO_ZIP_UNICODE_COMMENT_EXTRA_FIELD == 25461
INFO_ZIP_UNICODE_PATH_EXTRA_FIELD == 28789
STORED == 0
DEFLATE == 8

(* --------------------------- byte helpers ----------------------------- *)

None == <<>>
Some(x) == <<x>>
IsSome(o) == Len(o) = 1
Unwrap(o) == o[1]

Min(a, b) == IF a < b THEN a ELSE b

\* data[from..to] of the source: 0-based, half-open.
Slice(data, from, to) == SubSeq(data, from + 1, to)

Repeat(b, n) == [i \in 1..n |-> b]

\* u16::to_le_bytes / u32::to_le_bytes / u64::to_le_bytes (of a value < 2^31)
to_le_bytes16(n) == <<n % 256, (n \div 256) % 256>>
to_le_bytes32(n) == <<n % 256, (n \div 256) % 256, (n \div 65536) % 256, (n \div 16777216) % 256>>
to_le_bytes64(n) == to_le_bytes32(n) \o <<0, 0, 0, 0>>

\* u16::from_le_bytes(data[at..at+2])
u16_from_le_bytes(data, at) == data[at + 1] + 256 * data[at + 2]
\* u32::from_le_bytes(data[at..at+4]) and u64::from_le_bytes(data[at..at+8]), kept as tuples
u32_from_le_bytes(data, at) == Slice(data, at, at + 4)
u64_from_le_bytes(data, at) == Slice(data, at, at + 8)

\* `x as u64` of a u32
as_u64(w) == w \o <<0, 0, 0, 0>>

\* A length no source of the model reaches: every larger value bounds a read the same way.
FarLength == 256 * 256 * 256

\* The number a u32/u64 tuple stands for, capped at FarLength.
AsLen(w) ==
    IF \A i \in 4..Len(w) : w[i] = 0
    THEN w[1] + 256 * w[2] + 65536 * w[3]
    ELSE FarLength

(* ------------------------------ errors -------------------------------- *)

NoError == [kind |-> "none", a |-> <<>>, b |-> <<>>]
Error(k) == [kind |-> k, a |-> <<>>, b |-> <<>>]
Error2(k, x, y) == [kind |-> k, a |-> x, b |-> y]

\* data[from..to] lies within the slice; an index that does not panics, which the
\* parsers below return as the error "Panic".
InRange(data, from, to) == from <= to /\ to <= Len(data)

(* ------------------ record codecs (spec/parse.rs) --------------------- *)

\* Bit 11 of the general-purpose flags: value & 0x800
FILENAME_UNICODE == 2048

\* A variant that takes bit 10 for the filename-is-UTF-8 flag.
GeneralPurposeFlag_bit10(value) ==
    [encrypted |-> value % 2 # 0,
     data_descriptor |-> (value \div 8) % 2 # 0,
     filename_unicode |-> (value \div 1024) % 2 # 0]

\* From<u16> for GeneralPurposeFlag
GeneralPurposeFlag(value) ==
    [encrypted |-> value % 2 # 0,
     data_descriptor |-> (value \div 8) % 2 # 0,
     filename_unicode |-> (value \div 2048) % 2 # 0]

\* From<[u8; 26]> for LocalFileHeader
LocalFileHeader(value) ==
    [version |-> u16_from_le_bytes(value, 0),
     flags |-> GeneralPurposeFlag(u16_from_le_bytes(value, 2)),
     compression |-> u16_from_le_bytes(value, 4),
     mod_time |-> u16_from_le_bytes(value, 6),
     mod_date |-> u16_from_le_bytes(value, 8),
     crc |-> u32_from_le_bytes(value, 10),
     compressed_size |-> u32_from_le_bytes(value, 14),
     uncompressed_size |-> u32_from_le_bytes(value, 18),
     file_name_length |-> u16_from_le_bytes(value, 22),
     extra_field_length |-> u16_from_le_bytes(value, 24)]

\* From<[u8; 42]> for CentralDirectoryRecord
CentralDirectoryRecord(value) ==
    [v_made_by |-> u16_from_le_bytes(value, 0),
     v_needed |-> u16_from_le_bytes(value, 2),
     flags |-> GeneralPurposeFlag(u16_from_le_bytes(value, 4)),
     compression |-> u16_from_le_bytes(value, 6),
     mod_time |-> u16_from_le_bytes(value, 8),
     mod_date |-> u16_from_le_bytes(value, 10),
     crc |-> u32_from_le_bytes(value, 12),
     compressed_size |-> u32_from_le_bytes(value, 16),
     uncompressed_size |-> u32_from_le_bytes(value, 20),
     file_name_length |-> u16_from_le_bytes(value, 24),
     extra_field_length |-> u16_from_le_bytes(value, 26),
     file_comment_length |-> u16_from_le_bytes(value, 28),
     disk_start |-> u16_from_le_bytes(value, 30),
     inter_attr |-> u16_from_le_bytes(value, 32),
     exter_attr |-> u32_from_le_bytes(value, 34),
     lh_offset |-> u32_from_le_bytes(value, 38)]

\* From<[u8; 18]> for EndOfCentralDirectoryHeader
EndOfCentralDirectoryHeader(value) ==
    [disk_num |-> u16_from_le_bytes(value, 0),
     start_cent_dir_disk |-> u16_from_le_bytes(value, 2),
     num_of_entries_disk |-> u16_from_le_bytes(value, 4),
     num_of_entries |-> u16_from_le_bytes(value, 6),
     size_cent_dir |-> u32_from_le_bytes(value, 8),
     cent_dir_offset |-> u32_from_le_bytes(value, 12),
     file_comm_length |-> u16_from_le_bytes(value, 16)]

\* From<[u8; 52]> for Zip64EndOfCentralDirectoryRecord
Zip64EndOfCentralDirectoryRecord(value) ==
    [size_of_zip64_end_of_cd_record |-> u64_from_le_bytes(value, 0),
     version_made_by |-> u16_from_le_bytes(value, 8),
     version_needed_to_extract |-> u16_from_le_bytes(value, 10),
     disk_number |-> u32_from_le_bytes(value, 12),
     disk_number_start_of_cd |-> u32_from_le_bytes(value, 16),
     num_entries_in_directory_on_disk |-> u64_from_le_bytes(value, 20),
     num_entries_in_directory |-> u64_from_le_bytes(value, 28),
     directory_size |-> u64_from_le_bytes(value, 36),
     offset_of_start_of_directory |-> u64_from_le_bytes(value, 44)]

\* A variant that decodes the relative offset from the first eight bytes.
Zip64EndOfCentralDirectoryLocator_offset_first(value) ==
    [number_of_disk_with_start_of_zip64_end_of_central_directory |-> u32_from_le_bytes(value, 8),
     relative_offset |-> u64_from_le_bytes(value, 0),
     total_number_of_disks |-> u32_from_le_bytes(value, 12)]

\* From<[u8; 16]> for Zip64EndOfCentralDirectoryLocator
Zip64EndOfCentralDirectoryLocator(value) ==
    [number_of_disk_with_start_of_zip64_end_of_central_directory |-> u32_from_le_bytes(value, 0),
     relative_offset |-> u64_from_le_bytes(value, 4),
     total_number_of_disks |-> u32_from_le_bytes(value, 12)]

(* --------------- extra fields (spec/extra_field.rs) ------------------- *)

\* One decoded ExtraField; the fields a variant does not have stay at their defaults.
BlankExtraField ==
    [variant |-> "Unknown", header_id |-> 0, data_size |-> 0, content |-> <<>>,
     uncompressed_size |-> None, compressed_size |-> None,
     relative_header_offset |-> None, disk_start_number |-> None,
     version |-> 0, crc32 |-> <<>>, unicode |-> <<>>]

FieldOk(f) == [ok |-> TRUE, field |-> f, err |-> NoError]
FieldErr(e) == [ok |-> FALSE, field |-> BlankExtraField, err |-> e]

\* A variant whose fallback does not ask that the header passed no offset and no disk number.
zip64_check_any_owner(header_id, data, header_uncompressed_size, header_compressed_size, header_relative_header_offset, header_disk_start_number, slots, current_idx) ==
    IF current_idx # Len(data)
    THEN IF /\ current_idx = 0
            /\ Len(data) = 16
            /\ u64_from_le_bytes(data, 0) = as_u64(header_uncompressed_size)
            /\ u64_from_le_bytes(data, 8) = as_u64(header_compressed_size)
         THEN FieldOk([BlankExtraField EXCEPT
                  !.variant = "Zip64ExtendedInformation", !.header_id = header_id,
                  !.uncompressed_size = Some(u64_from_le_bytes(data, 0)),
                  !.compressed_size = Some(u64_from_le_bytes(data, 8))])
         ELSE FieldErr(Error2("Zip64ExtendedInformationFieldTooLong", Len(data), current_idx))
    ELSE FieldOk([BlankExtraField EXCEPT
             !.variant = "Zip64ExtendedInformation", !.header_id = header_id,
             !.uncompressed_size = slots[1],
             !.compressed_size = slots[2],
             !.relative_header_offset = slots[3],
             !.disk_start_number = slots[4]])

\* The close of the ZIP64 decoder: the length check, its 16-byte fallback, the field.
zip64_check(header_id, data, header_uncompressed_size, header_compressed_size, header_relative_header_offset, header_disk_start_number, slots, current_idx) ==
    IF current_idx # Len(data)
    THEN IF /\ current_idx = 0
            /\ Len(data) = 16
            /\ u64_from_le_bytes(data, 0) = as_u64(header_uncompressed_size)
            /\ u64_from_le_bytes(data, 8) = as_u64(header_compressed_size)
            /\ header_relative_header_offset = None
            /\ header_disk_start_number = None
         THEN FieldOk([BlankExtraField EXCEPT
                  !.variant = "Zip64ExtendedInformation", !.header_id = header_id,
                  !.uncompressed_size = Some(u64_from_le_bytes(data, 0)),
                  !.compressed_size = Some(u64_from_le_bytes(data, 8))])
         ELSE FieldErr(Error2("Zip64ExtendedInformationFieldTooLong", Len(data), current_idx))
    ELSE FieldOk([BlankExtraField EXCEPT
             !.variant = "Zip64ExtendedInformation", !.header_id = header_id,
             !.uncompressed_size = slots[1],
             !.compressed_size = slots[2],
             !.relative_header_offset = slots[3],
             !.disk_start_number = slots[4]])

\* A variant that reads a slot whenever the bytes are there, whatever the header asks for.
zip64_slot_greedy(data, wanted, width, current_idx) ==
    IF Len(data) >= current_idx + width
    THEN [value |-> Some(Slice(data, current_idx, current_idx + width)),
          idx |-> current_idx + width]
    ELSE [value |-> None, idx |-> current_idx]

\* One conditional slot of the ZIP64 field: read `width` bytes at current_idx when the
\* header asks for the slot and the bytes are there.
zip64_slot(data, wanted, width, current_idx) ==
    IF wanted /\ Len(data) >= current_idx + width
    THEN [value |-> Some(Slice(data, current_idx, current_idx + width)),
          idx |-> current_idx + width]
    ELSE [value |-> None, idx |-> current_idx]

zip64_disk(header_id, data, hu, hc, ho, hd, u, c, o) ==
    zip64_check(header_id, data, hu, hc, ho, hd,
                <<u.value, c.value, o.value,
                  zip64_slot(data, hd = Some(DISK_SENTINEL), 4, o.idx).value>>,
                zip64_slot(data, hd = Some(DISK_SENTINEL), 4, o.idx).idx)

zip64_offset(header_id, data, hu, hc, ho, hd, u, c) ==
    zip64_disk(header_id, data, hu, hc, ho, hd, u, c,
               zip64_slot(data, ho = Some(NON_ZIP64_MAX_SIZE), 8, c.idx))

zip64_compressed(header_id, data, hu, hc, ho, hd, u) ==
    zip64_offset(header_id, data, hu, hc, ho, hd, u,
                 zip64_slot(data, hc = NON_ZIP64_MAX_SIZE, 8, u.idx))

zip64_extended_information_field_from_bytes(header_id, data, header_uncompressed_size, header_compressed_size, header_relative_header_offset, header_disk_start_number) ==
    zip64_compressed(header_id, data, header_uncompressed_size, header_compressed_size,
                     header_relative_header_offset, header_disk_start_number,
                     zip64_slot(data, header_uncompressed_size = NON_ZIP64_MAX_SIZE, 8, 0))

\* A variant whose V1 text begins at the last byte of the CRC.
info_zip_unicode_field_from_crc(variant, incomplete, header_id, data_size, data) ==
    IF Len(data) = 0 THEN FieldErr(Error(incomplete))
    ELSE IF data[1] = 1
    THEN IF Len(data) < 5 THEN FieldErr(Error(incomplete))
         ELSE FieldOk([BlankExtraField EXCEPT
                  !.variant = variant, !.header_id = header_id, !.version = 1,
                  !.crc32 = u32_from_le_bytes(data, 1),
                  !.unicode = Slice(data, 4, data_size)])
    ELSE FieldOk([BlankExtraField EXCEPT
             !.variant = variant, !.header_id = header_id, !.version = data[1],
             !.content = Slice(data, 1, data_size)])

\* Shared body of the two InfoZIP Unicode decoders, which differ in variant and error only.
info_zip_unicode_field(variant, incomplete, header_id, data_size, data) ==
    IF Len(data) = 0 THEN FieldErr(Error(incomplete))
    ELSE IF data[1] = 1
    THEN IF Len(data) < 5 THEN FieldErr(Error(incomplete))
         ELSE IF ~InRange(data, 5, data_size) THEN FieldErr(Error("Panic"))
         ELSE FieldOk([BlankExtraField EXCEPT
                  !.variant = variant, !.header_id = header_id, !.version = 1,
                  !.crc32 = u32_from_le_bytes(data, 1),
                  !.unicode = Slice(data, 5, data_size)])
    ELSE IF ~InRange(data, 1, data_size) THEN FieldErr(Error("Panic"))
    ELSE FieldOk([BlankExtraField EXCEPT
             !.variant = variant, !.header_id = header_id, !.version = data[1],
             !.content = Slice(data, 1, data_size)])

info_zip_unicode_comment_extra_field_from_bytes(header_id, data_size, data) ==
    info_zip_unicode_field("InfoZipUnicodeComment", "InfoZipUnicodeCommentFieldIncomplete",
                           header_id, data_size, data)

info_zip_unicode_path_extra_field_from_bytes(header_id, data_size, data) ==
    info_zip_unicode_field("InfoZipUnicodePath", "InfoZipUnicodePathFieldIncomplete",
                           header_id, data_size, data)

\* A variant whose Unknown field counts the four bytes of the record header in its size.
extra_field_from_bytes_sized_with_header(header_id, data_size, data, uncompressed_size, compressed_size, relative_header_offset, disk_start_number) ==
    IF header_id = ZIP64_EXTENDED_INFORMATION_EXTRA_FIELD
    THEN zip64_extended_information_field_from_bytes(header_id, data, uncompressed_size,
             compressed_size, relative_header_offset, disk_start_number)
    ELSE IF header_id = INFO_ZIP_UNICODE_COMMENT_EXTRA_FIELD
    THEN info_zip_unicode_comment_extra_field_from_bytes(header_id, data_size, data)
    ELSE IF header_id = INFO_ZIP_UNICODE_PATH_EXTRA_FIELD
    THEN info_zip_unicode_path_extra_field_from_bytes(header_id, data_size, data)
    ELSE FieldOk([BlankExtraField EXCEPT
             !.variant = "Unknown", !.header_id = header_id,
             !.data_size = data_size + 4, !.content = data])

extra_field_from_bytes(header_id, data_size, data, uncompressed_size, compressed_size, relative_header_offset, disk_start_number) ==
    IF header_id = ZIP64_EXTENDED_INFORMATION_EXTRA_FIELD
    THEN zip64_extended_information_field_from_bytes(header_id, data, uncompressed_size,
             compressed_size, relative_header_offset, disk_start_number)
    ELSE IF header_id = INFO_ZIP_UNICODE_COMMENT_EXTRA_FIELD
    THEN info_zip_unicode_comment_extra_field_from_bytes(header_id, data_size, data)
    ELSE IF header_id = INFO_ZIP_UNICODE_PATH_EXTRA_FIELD
    THEN info_zip_unicode_path_extra_field_from_bytes(header_id, data_size, data)
    ELSE FieldOk([BlankExtraField EXCEPT
             !.variant = "Unknown", !.header_id = header_id,
             !.data_size = data_size, !.content = data])

(* --------------- parse_extra_fields (spec/parse.rs) ------------------- *)

FieldsOk(fs) == [ok |-> TRUE, fields |-> fs, err |-> NoError]
FieldsErr(e) == [ok |-> FALSE, fields |-> <<>>, err |-> e]

RECURSIVE parse_extra_fields_from(_, _, _, _, _, _, _)

\* A variant that pushes the decoded field without the duplicate guard.
parse_extra_field_push_unguarded(data, next_cursor, extra_fields, uncompressed_size, compressed_size, relative_header_offset, disk_start_number, header_id, r) ==
    IF ~r.ok THEN FieldsErr(r.err)
    ELSE parse_extra_fields_from(data, next_cursor, Append(extra_fields, r.field),
             uncompressed_size, compressed_size, relative_header_offset, disk_start_number)

\* The tail of one turn of the loop: the decoded field r, the duplicate guard, the push.
parse_extra_field_push(data, next_cursor, extra_fields, uncompressed_size, compressed_size, relative_header_offset, disk_start_number, header_id, r) ==
    IF ~r.ok THEN FieldsErr(r.err)
    ELSE IF \E i \in 1..Len(extra_fields) : extra_fields[i].header_id = r.field.header_id
    THEN FieldsErr(Error2("DuplicateExtraFieldHeader", header_id, <<>>))
    ELSE parse_extra_fields_from(data, next_cursor, Append(extra_fields, r.field),
             uncompressed_size, compressed_size, relative_header_offset, disk_start_number)

\* let data = &data[cursor + 4..cursor + 4 + field_size as usize]; the decoding of the
\* field, the duplicate guard and the push.
parse_extra_field_decode(data, cursor, extra_fields, uncompressed_size, compressed_size, relative_header_offset, disk_start_number, header_id, field_size) ==
    IF ~InRange(data, cursor + 4, cursor + 4 + field_size) THEN FieldsErr(Error("Panic"))
    ELSE parse_extra_field_push(data, cursor + 4 + field_size, extra_fields,
             uncompressed_size, compressed_size, relative_header_offset, disk_start_number,
             header_id,
             extra_field_from_bytes(header_id, field_size,
                 Slice(data, cursor + 4, cursor + 4 + field_size),
                 uncompressed_size, compressed_size, relative_header_offset,
                 disk_start_number))

\* A variant that rejects a record whose body ends where the blob ends.
parse_extra_field_at_inclusive(data, cursor, extra_fields, uncompressed_size, compressed_size, relative_header_offset, disk_start_number, header_id, field_size) ==
    IF cursor + 4 + field_size >= Len(data)
    THEN FieldsErr(Error2("InvalidExtraFieldHeader", field_size, <<>>))
    ELSE parse_extra_field_decode(data, cursor, extra_fields, uncompressed_size,
             compressed_size, relative_header_offset, disk_start_number, header_id, field_size)

\* A variant without the check of the record's size against the blob.
parse_extra_field_at_unchecked(data, cursor, extra_fields, uncompressed_size, compressed_size, relative_header_offset, disk_start_number, header_id, field_size) ==
    parse_extra_field_decode(data, cursor, extra_fields, uncompressed_size,
        compressed_size, relative_header_offset, disk_start_number, header_id, field_size)

\* One turn of the loop, for the record header (header_id, field_size) at the cursor.
parse_extra_field_at(data, cursor, extra_fields, uncompressed_size, compressed_size, relative_header_offset, disk_start_number, header_id, field_size) ==
    IF cursor + 4 + field_size > Len(data)
    THEN FieldsErr(Error2("InvalidExtraFieldHeader", field_size, <<>>))
    ELSE parse_extra_field_decode(data, cursor, extra_fields, uncompressed_size,
             compressed_size, relative_header_offset, disk_start_number, header_id, field_size)

parse_extra_fields_from(data, cursor, extra_fields, uncompressed_size, compressed_size, relative_header_offset, disk_start_number) ==
    IF ~(cursor + 4 <= Len(data)) THEN FieldsOk(extra_fields)
    ELSE parse_extra_field_at(data, cursor, extra_fields, uncompressed_size, compressed_size,
             relative_header_offset, disk_start_number,
             u16_from_le_bytes(data, cursor), u16_from_le_bytes(data, cursor + 2))

parse_extra_fields(data, uncompressed_size, compressed_size, relative_header_offset, disk_start_number) ==
    parse_extra_fields_from(data, 0, <<>>, uncompressed_size, compressed_size,
        relative_header_offset, disk_start_number)

(* ------------------------- the byte source ---------------------------- *)
(* The source is a forward-only stream.  What it will deliver is an        *)
(* archive: local entries, then one central-directory record per entry,    *)
(* then the end records and the archive comment.  It delivers one record   *)
(* at a time, when the reader polls it for bytes it does not hold yet.     *)

\* The shape of one record of the archive.
BlankShape ==
    [method |-> STORED, dd |-> FALSE, ddSig |-> FALSE, ddBad |-> FALSE, zip64 |-> FALSE,
     nameLen |-> 0, body |-> 0, commentLen |-> 0, tail |-> "ok", badExtra |-> FALSE]

EntryShapes ==
    { [BlankShape EXCEPT !.method = m, !.dd = d, !.ddSig = s, !.ddBad = x, !.zip64 = z,
                         !.nameLen = n, !.body = b] :
        m \in {STORED, DEFLATE}, d \in BOOLEAN, s \in BOOLEAN, x \in BOOLEAN,
        z \in BOOLEAN, n \in 0..MaxNameLen, b \in 0..MaxBody }

\* Descriptor bits only vary on an entry that has a descriptor.
LocalShapes == { k \in EntryShapes : ~k.dd => (~k.ddSig /\ ~k.ddBad) }

\* The directory records, and one whose extra field announces more bytes than it holds:
\* the source writes that one as the first record of a directory of two.
CdShapes ==
    { [BlankShape EXCEPT !.zip64 = z, !.nameLen = n, !.commentLen = c] :
        z \in BOOLEAN, n \in 0..MaxNameLen, c \in 0..MaxCommentLen }
    \cup { [BlankShape EXCEPT !.badExtra = TRUE] }

\* How the end records of a ZIP64 archive may be wrong: no locator after the ZIP64
\* record, a locator that points elsewhere, no end record after the locator.
TailKinds == {"ok", "noLocator", "badOffset", "badEocdr"}

TailShapes ==
    { [BlankShape EXCEPT !.zip64 = z, !.commentLen = c, !.tail = t] :
        z \in BOOLEAN, c \in 0..MaxCommentLen, t \in TailKinds }

\* Only the end records of a ZIP64 archive vary so; the comment varies on those that
\* are right, where it is read.
EndShapes ==
    { k \in TailShapes : (~k.zip64 => k.tail = "ok") /\ (k.tail # "ok" => k.commentLen = 0) }

\* The compressed stream of the model's decompressor: one byte of payload for each
\* byte of content, closed by an end-of-stream marker the decompressor recognises.
END_OF_STREAM == 0
PAYLOAD == 7

BodyBytes(k) ==
    IF k.method = STORED THEN Repeat(PAYLOAD, k.body)
    ELSE Repeat(PAYLOAD, k.body) \o <<END_OF_STREAM>>

CrcBytes == <<9, 9, 9, 9>>

LocalExtra(k) ==
    IF k.zip64
    THEN to_le_bytes16(ZIP64_EXTENDED_INFORMATION_EXTRA_FIELD) \o to_le_bytes16(16)
         \o to_le_bytes64(IF k.dd THEN 0 ELSE k.body)
         \o to_le_bytes64(IF k.dd THEN 0 ELSE Len(BodyBytes(k)))
    ELSE <<>>

DescriptorBytes(k) ==
    IF ~k.dd THEN <<>>
    ELSE LET c == Len(BodyBytes(k)) + (IF k.ddBad THEN 1 ELSE 0)
         IN  (IF k.ddSig THEN to_le_bytes32(DATA_DESCRIPTOR_SIGNATURE) ELSE <<>>)
             \o CrcBytes
             \o (IF k.zip64 THEN to_le_bytes64(c) \o to_le_bytes64(k.body)
                 ELSE to_le_bytes32(c) \o to_le_bytes32(k.body))

Size32(k, n) ==
    IF k.zip64 THEN NON_ZIP64_MAX_SIZE ELSE to_le_bytes32(IF k.dd THEN 0 ELSE n)

LocalEntryBytes(k) ==
    to_le_bytes32(LFH_SIGNATURE)
    \o to_le_bytes16(IF k.zip64 THEN 45 ELSE 20)
    \o to_le_bytes16(IF k.dd THEN 8 ELSE 0)
    \o to_le_bytes16(k.method)
    \o <<0, 0>> \o <<0, 0>>
    \o (IF k.dd THEN <<0, 0, 0, 0>> ELSE CrcBytes)
    \o Size32(k, Len(BodyBytes(k)))
    \o Size32(k, k.body)
    \o to_le_bytes16(k.nameLen)
    \o to_le_bytes16(Len(LocalExtra(k)))
    \o Repeat(97, k.nameLen)
    \o LocalExtra(k)
    \o BodyBytes(k)
    \o DescriptorBytes(k)

\* An extra-field record header that announces 9 bytes of data, with none behind it.
TruncatedExtra == to_le_bytes16(ZIP64_EXTENDED_INFORMATION_EXTRA_FIELD) \o to_le_bytes16(9)

CdExtra(k) ==
    IF k.badExtra THEN TruncatedExtra
    ELSE IF k.zip64
    THEN to_le_bytes16(ZIP64_EXTENDED_INFORMATION_EXTRA_FIELD) \o to_le_bytes16(24)
         \o to_le_bytes64(5) \o to_le_bytes64(6) \o to_le_bytes64(3)
    ELSE <<>>

\* A directory record after its signature: the 42-byte header with the given sizes,
\* disk number and offset, then the name, the extra field and the comment.
CdRecordOf(flags, compressed_size, uncompressed_size, disk_start, lh_offset, name, extra, comment) ==
    to_le_bytes16(798) \o to_le_bytes16(45)
    \o to_le_bytes16(flags) \o to_le_bytes16(DEFLATE) \o <<0, 0>> \o <<0, 0>>
    \o CrcBytes
    \o compressed_size
    \o uncompressed_size
    \o to_le_bytes16(Len(name))
    \o to_le_bytes16(Len(extra))
    \o to_le_bytes16(Len(comment))
    \o to_le_bytes16(disk_start) \o <<0, 0>> \o <<0, 0, 0, 0>>
    \o lh_offset
    \o name
    \o extra
    \o comment

CdRecordBytes(k) ==
    to_le_bytes32(CDH_SIGNATURE)
    \o CdRecordOf(0, IF k.zip64 THEN NON_ZIP64_MAX_SIZE ELSE to_le_bytes32(6),
                  IF k.zip64 THEN NON_ZIP64_MAX_SIZE ELSE to_le_bytes32(5),
                  0,
                  IF k.zip64 THEN NON_ZIP64_MAX_SIZE ELSE to_le_bytes32(3),
                  Repeat(97, k.nameLen), CdExtra(k), Repeat(99, k.commentLen))

\* The end records, written where the archive is `at` bytes long, after n directory records.
TailBytes(k, at, n) ==
    (IF k.zip64
     THEN to_le_bytes32(ZIP64_EOCDR_SIGNATURE)
          \o to_le_bytes64(44) \o to_le_bytes16(798) \o to_le_bytes16(45)
          \o to_le_bytes32(0) \o to_le_bytes32(0)
          \o to_le_bytes64(n) \o to_le_bytes64(n)
          \o to_le_bytes64(47) \o to_le_bytes64(64)
          \o (IF k.tail = "noLocator" THEN <<>>
              ELSE to_le_bytes32(ZIP64_EOCDL_SIGNATURE) \o to_le_bytes32(0)
                   \o to_le_bytes64(IF k.tail = "badOffset" THEN at + 1 ELSE at)
                   \o to_le_bytes32(1))
          \o (IF k.tail = "badEocdr" THEN <<80, 75, 9, 9>> ELSE <<>>)
     ELSE <<>>)
    \o to_le_bytes32(EOCDR_SIGNATURE)
    \o <<0, 0>> \o <<0, 0>> \o to_le_bytes16(n) \o to_le_bytes16(n)
    \o to_le_bytes32(47) \o to_le_bytes32(64)
    \o to_le_bytes16(k.commentLen)
    \o Repeat(100, k.commentLen)

\* Four bytes that are no signature of the format.
GarbageBytes == <<80, 75, 9, 9>>

(* ------------------- reads of the source (io/mod.rs) ------------------ *)
(* A reader sees the bytes the source holds for it (buf) and whether the    *)
(* source has ended (eof).  A read that needs bytes the source has not      *)
(* delivered yet is pending: the future is suspended and nothing is lost.   *)

Drop(buf, k) == SubSeq(buf, k + 1, Len(buf))

\* AsyncReadExt::read_exact of n bytes: at the end of the source it fails
\* (UnexpectedEof) after taking what was left.
read_exact(buf, eof, n) ==
    IF Len(buf) >= n THEN [st |-> "ok", bytes |-> SubSeq(buf, 1, n), n |-> n]
    ELSE IF eof THEN [st |-> "eof", bytes |-> <<>>, n |-> Len(buf)]
    ELSE [st |-> "pending", bytes |-> <<>>, n |-> 0]

\* reader.take(length).read_to_end(&mut buffer): the bytes up to `length`, or up to
\* the end of the source when it comes first; that is Ok as well.
\* A variant that asks for all of its bytes, as read_exact does.
read_bytes_exact(buf, eof, length) ==
    IF Len(buf) >= length THEN [st |-> "ok", bytes |-> SubSeq(buf, 1, length), n |-> length]
    ELSE IF eof THEN [st |-> "eof", bytes |-> <<>>, n |-> Len(buf)]
    ELSE [st |-> "pending", bytes |-> <<>>, n |-> 0]

\* reader.take(length).read_to_end(&mut buffer): the bytes up to `length`, or up to the
\* end of the source when it comes first.
read_bytes(buf, eof, length) ==
    IF Len(buf) >= length THEN [st |-> "ok", bytes |-> SubSeq(buf, 1, length), n |-> length]
    ELSE IF eof THEN [st |-> "ok", bytes |-> buf, n |-> Len(buf)]
    ELSE [st |-> "pending", bytes |-> <<>>, n |-> 0]

\* ZipString::new(read_bytes(reader, length), encoding)
read_string(buf, eof, length, encoding) ==
    LET r == read_bytes(buf, eof, length)
    IN  [st |-> r.st, string |-> [raw |-> r.bytes, encoding |-> encoding], n |-> r.n]

(* ---------------- the counting adapter (stream.rs, counting.rs) ------- *)

\* Counting::new
Counting_new == [bytes |-> 0]

\* Counting::bytes_read
bytes_read(counting) == counting.bytes

\* A variant that counts the reads that went through, not their bytes.
Counting_advance_by_reads(counting, n) == [counting EXCEPT !.bytes = @ + 1]

\* Counting::poll_read / Counting::consume after n bytes went through
Counting_advance(counting, n) == [counting EXCEPT !.bytes = @ + n]

(* -------------- helpers of base/read (filename, ZIP64) ---------------- *)

\* The first ZIP64 extended-information field of a list, if any.
get_zip64_extra_field(extra_fields) ==
    LET hits == { i \in 1..Len(extra_fields) :
                     extra_fields[i].variant = "Zip64ExtendedInformation" }
    IN  IF hits = {} THEN None
        ELSE Some(extra_fields[CHOOSE i \in hits : \A j \in hits : i <= j])

\* The filename reported for a record.
detect_filename(basic, basic_is_utf8, extra_fields) ==
    LET hits == { i \in 1..Len(extra_fields) :
                     /\ extra_fields[i].variant = "InfoZipUnicodePath"
                     /\ extra_fields[i].version = 1 }
    IN  IF basic_is_utf8 THEN [raw |-> basic, encoding |-> "Utf8"]
        ELSE IF hits # {}
        THEN [raw |-> extra_fields[CHOOSE i \in hits : \A j \in hits : i <= j].unicode,
              encoding |-> "Utf8"]
        ELSE [raw |-> basic, encoding |-> "Cp437"]

\* A variant that reports the header's 32-bit value whatever the ZIP64 field holds.
Reconcile_header_only(zip64_extra_field, slot, header_value) == as_u64(header_value)

\* A variant that takes every value from the first slot of the ZIP64 field.
Reconcile_first_slot(zip64_extra_field, slot, header_value) ==
    IF /\ IsSome(zip64_extra_field)
       /\ IsSome(Unwrap(zip64_extra_field).uncompressed_size)
       /\ header_value = NON_ZIP64_MAX_SIZE
    THEN Unwrap(Unwrap(zip64_extra_field).uncompressed_size)
    ELSE as_u64(header_value)

\* A size or offset of a header, replaced by its ZIP64 slot where the header holds the sentinel.
Reconcile(zip64_extra_field, slot, header_value) ==
    IF /\ IsSome(zip64_extra_field)
       /\ IsSome(Unwrap(zip64_extra_field)[slot])
       /\ header_value = NON_ZIP64_MAX_SIZE
    THEN Unwrap(Unwrap(zip64_extra_field)[slot])
    ELSE as_u64(header_value)

(* ------------------- the local file header (lfh) ---------------------- *)

NoEntry ==
    [filename |-> [raw |-> <<>>, encoding |-> "Cp437"], compression |-> 0, crc32 |-> <<>>,
     uncompressed_size |-> <<>>, compressed_size |-> <<>>, data_descriptor |-> FALSE,
     file_offset |-> 0, zip64 |-> FALSE]

LfhResult(st, err, n, entry, sig) ==
    [st |-> st, err |-> err, n |-> n, entry |-> entry, sig |-> sig]

\* What a read that could not be served turns the call into.
LfhShort(r, used, sig) ==
    IF r.st = "eof" THEN LfhResult("Err", Error("Io"), used + r.n, NoEntry, sig)
    ELSE LfhResult("Pending", NoError, 0, NoEntry, sig)

\* The entry built from a local header, its filename and its extra fields.
lfh_build(header, name, fields, zip64, file_offset) ==
    [filename |-> detect_filename(name, header.flags.filename_unicode, fields),
     compression |-> header.compression,
     crc32 |-> header.crc,
     uncompressed_size |-> Reconcile(zip64, "uncompressed_size", header.uncompressed_size),
     compressed_size |-> Reconcile(zip64, "compressed_size", header.compressed_size),
     data_descriptor |-> header.flags.data_descriptor,
     file_offset |-> file_offset,
     zip64 |-> IsSome(zip64)]

\* The checks on a local header whose extra fields are parsed, and the entry.
lfh_checked(header, name, parsed, used, file_offset, sig) ==
    IF ~parsed.ok THEN LfhResult("Err", parsed.err, used, NoEntry, sig)
    ELSE IF header.flags.data_descriptor /\ header.compression = STORED
    THEN LfhResult("Err", Error("CannotReadDataDescriptorWithStored"), used, NoEntry, sig)
    ELSE LfhResult("Some", NoError, used,
             lfh_build(header, name, parsed.fields, get_zip64_extra_field(parsed.fields),
                       file_offset),
             sig)

\* The filename and the extra fields that follow a local header.
lfh_fields(buf, eof, file_offset, sig, header, at, name, extra) ==
    IF name.st # "ok" THEN LfhShort(name, at, sig)
    ELSE IF extra.st # "ok" THEN LfhShort(extra, at + name.n, sig)
    ELSE lfh_checked(header, name.bytes,
             parse_extra_fields(extra.bytes, header.uncompressed_size,
                 header.compressed_size, None, None),
             at + name.n + extra.n, file_offset, sig)

lfh_names(buf, eof, file_offset, sig, header, at, name) ==
    lfh_fields(buf, eof, file_offset, sig, header, at, name,
        read_bytes(Drop(buf, at + name.n), eof, header.extra_field_length))

lfh_header(buf, eof, file_offset, sig, header, at) ==
    lfh_names(buf, eof, file_offset, sig, header, at,
        read_bytes(Drop(buf, at), eof, header.file_name_length))

lfh_body(buf, eof, file_offset, sig, h) ==
    IF h.st # "ok" THEN LfhShort(h, SIGNATURE_LENGTH, sig)
    ELSE lfh_header(buf, eof, file_offset, sig, LocalFileHeader(h.bytes),
             SIGNATURE_LENGTH + LFH_LENGTH)

\* The header, filename and extra fields that follow an LFH_SIGNATURE.
lfh_entry(buf, eof, file_offset, sig) ==
    lfh_body(buf, eof, file_offset, sig,
        read_exact(Drop(buf, SIGNATURE_LENGTH), eof, LFH_LENGTH))

lfh_dispatch(buf, eof, file_offset, s) ==
    IF s.st # "ok" THEN LfhShort(s, 0, <<>>)
    ELSE IF s.bytes = to_le_bytes32(LFH_SIGNATURE)
    THEN lfh_entry(buf, eof, file_offset, s.bytes)
    ELSE IF s.bytes \in {to_le_bytes32(CDH_SIGNATURE), to_le_bytes32(EOCDR_SIGNATURE)}
    THEN LfhResult("None", NoError, SIGNATURE_LENGTH, NoEntry, s.bytes)
    ELSE LfhResult("Err",
             Error2("UnexpectedHeaderError", s.bytes, to_le_bytes32(LFH_SIGNATURE)),
             SIGNATURE_LENGTH, NoEntry, s.bytes)

\* crate::base::read::lfh: the signature, then the entry or the end of the entries.
lfh(buf, eof, file_offset) ==
    lfh_dispatch(buf, eof, file_offset, read_exact(buf, eof, SIGNATURE_LENGTH))

(* --------------------- the entry body reader -------------------------- *)

\* ZipEntryReader::new_with_owned(reader, compression, length): a Take(length) of the
\* source under the decompressor of the method.
new_with_owned(compression, length) ==
    [compression |-> compression, remaining |-> AsLen(length), finished |-> FALSE]

ReadResult(st, k, n, reader) == [st |-> st, k |-> k, n |-> n, reader |-> reader]

\* The payload bytes at the head of buf, at most `most` of them.
RECURSIVE LeadingPayload(_, _)
LeadingPayload(buf, most) ==
    IF most = 0 \/ Len(buf) = 0 \/ buf[1] = END_OF_STREAM THEN 0
    ELSE 1 + LeadingPayload(Tail(buf), most - 1)

\* ZipEntryReader::read into a buffer of `size` bytes: k bytes of content returned,
\* n bytes of the source consumed.
entry_read(reader, buf, eof, size) ==
    LET window == Min(reader.remaining, Len(buf))
    IN  IF reader.compression = STORED
        THEN LET k == Min(size, window)
             IN  IF k > 0
                 THEN ReadResult("ok", k, k, [reader EXCEPT !.remaining = @ - k])
                 ELSE IF reader.remaining = 0 \/ eof THEN ReadResult("ok", 0, 0, reader)
                 ELSE ReadResult("pending", 0, 0, reader)
        ELSE IF reader.finished THEN ReadResult("ok", 0, 0, reader)
        ELSE LET p == LeadingPayload(buf, Min(size, window))
             IN  IF p > 0
                 THEN ReadResult("ok", p, p, [reader EXCEPT !.remaining = @ - p])
                 ELSE IF window > 0
                 THEN ReadResult("ok", 0, 1,
                          [reader EXCEPT !.remaining = @ - 1, !.finished = TRUE])
                 ELSE IF reader.remaining = 0 \/ eof THEN ReadResult("eof", 0, 0, reader)
                 ELSE ReadResult("pending", 0, 0, reader)

(* ------------------ done and skip (stream.rs) ------------------------- *)

\* What done or skip returned: n bytes consumed, dd of them after the body.
CloseResult(st, err, n) == [st |-> st, err |-> err, n |-> n, dd |-> 0]

CloseShort(r, used) ==
    IF r.st = "eof" THEN CloseResult("Err", Error("Io"), used + r.n)
    ELSE CloseResult("Pending", NoError, 0)

\* A variant of consume_data_descriptor that leaves the 4 bytes after a signed
\* descriptor's first 12 unread.
consume_data_descriptor_without_tail(buf, eof) ==
    LET descriptor == read_exact(buf, eof, DATA_DESCRIPTOR_LENGTH)
    IN  IF descriptor.st # "ok" THEN CloseShort(descriptor, 0)
        ELSE CloseResult("Ready", NoError, DATA_DESCRIPTOR_LENGTH)

\* consume_data_descriptor
consume_data_descriptor(buf, eof) ==
    LET descriptor == read_exact(buf, eof, DATA_DESCRIPTOR_LENGTH)
    IN  IF descriptor.st # "ok" THEN CloseShort(descriptor, 0)
        ELSE IF Slice(descriptor.bytes, 0, SIGNATURE_LENGTH)
                    = to_le_bytes32(DATA_DESCRIPTOR_SIGNATURE)
        THEN LET tail == read_exact(Drop(buf, DATA_DESCRIPTOR_LENGTH), eof, SIGNATURE_LENGTH)
             IN  IF tail.st # "ok" THEN CloseShort(tail, DATA_DESCRIPTOR_LENGTH)
                 ELSE CloseResult("Ready", NoError, DATA_DESCRIPTOR_LENGTH + SIGNATURE_LENGTH)
        ELSE CloseResult("Ready", NoError, DATA_DESCRIPTOR_LENGTH)

\* What done and skip do once the body is at its end: into_inner, then the descriptor.
finish_entry(has_data_descriptor, buf, eof, used) ==
    IF has_data_descriptor
    THEN LET d == consume_data_descriptor(Drop(buf, used), eof)
         IN  IF d.st = "Ready"
             THEN [CloseResult("Ready", NoError, used + d.n) EXCEPT !.dd = d.n]
             ELSE IF d.st = "Err"
             THEN [CloseResult("Err", d.err, used + d.n) EXCEPT !.dd = d.n]
             ELSE d
    ELSE CloseResult("Ready", NoError, used)

\* A variant of done that does not look at what its one-byte read returned.
done_result_unchecked(reader, has_data_descriptor, buf, eof) ==
    LET r == entry_read(reader, buf, eof, 1)
    IN  IF r.st # "ok" THEN CloseShort(r, 0)
        ELSE finish_entry(has_data_descriptor, buf, eof, r.n)

\* ZipFileReader<Reading>::done
done_result(reader, has_data_descriptor, buf, eof) ==
    LET r == entry_read(reader, buf, eof, 1)
    IN  IF r.st # "ok" THEN CloseShort(r, 0)
        ELSE IF r.k # 0 THEN CloseResult("Err", Error("EOFNotReached"), r.n)
        ELSE finish_entry(has_data_descriptor, buf, eof, r.n)

\* while self.0.0.read(&mut [0; 2048]).await? != 0 {}
RECURSIVE skip_drain(_, _, _, _)
skip_drain(reader, buf, eof, used) ==
    LET r == entry_read(reader, Drop(buf, used), eof, SKIP_BUFFER)
    IN  IF r.st # "ok" THEN [st |-> r.st, n |-> used + r.n]
        ELSE IF r.k = 0 THEN [st |-> "ok", n |-> used + r.n]
        ELSE skip_drain(r.reader, buf, eof, used + r.n)

\* ZipFileReader<Reading>::skip
skip_result(reader, has_data_descriptor, buf, eof) ==
    LET r == skip_drain(reader, buf, eof, 0)
    IN  IF r.st = "eof" THEN CloseResult("Err", Error("Io"), r.n)
        ELSE IF r.st = "pending" THEN CloseResult("Pending", NoError, 0)
        ELSE finish_entry(has_data_descriptor, buf, eof, r.n)

(* --------------- the central directory reader (cd.rs) ----------------- *)

NoCdEntry ==
    [compressed_size |-> <<>>, uncompressed_size |-> <<>>, lh_offset |-> <<>>,
     file_name_length |-> 0, extra_field_length |-> 0, file_comment_length |-> 0,
     filename |-> [raw |-> <<>>, encoding |-> "Cp437"]]

NoCombined == [zip64 |-> FALSE, num_entries |-> <<>>, directory_size |-> <<>>, offset |-> <<>>]

NoString == [raw |-> <<>>, encoding |-> "Utf8"]

CdResult(st, err, n, entry, record, comment) ==
    [st |-> st, err |-> err, n |-> n, entry |-> entry, record |-> record, comment |-> comment]

CdShort(r, used) ==
    IF r.st = "eof" THEN CdResult("Err", Error("Io"), used + r.n, NoCdEntry, NoCombined, NoString)
    ELSE CdResult("Pending", NoError, 0, NoCdEntry, NoCombined, NoString)

CdErr(e, used) == CdResult("Err", e, used, NoCdEntry, NoCombined, NoString)

\* CombinedCentralDirectoryRecord::from(&eocdr)
Combined_from(eocdr) ==
    [zip64 |-> FALSE,
     num_entries |-> to_le_bytes64(eocdr.num_of_entries),
     directory_size |-> as_u64(eocdr.size_cent_dir),
     offset |-> as_u64(eocdr.cent_dir_offset)]

\* CombinedCentralDirectoryRecord::combine(eocdr, zip64_eocdr)
Combined_combine(eocdr, zip64_eocdr) ==
    [zip64 |-> TRUE,
     num_entries |-> zip64_eocdr.num_entries_in_directory,
     directory_size |-> zip64_eocdr.directory_size,
     offset |-> zip64_eocdr.offset_of_start_of_directory]

\* The entry built from a directory record: the reconciled sizes and offset, the filename.
cd_build(header, name, fields, zip64) ==
    [compressed_size |-> Reconcile(zip64, "compressed_size", header.compressed_size),
     uncompressed_size |-> Reconcile(zip64, "uncompressed_size", header.uncompressed_size),
     lh_offset |-> Reconcile(zip64, "relative_header_offset", header.lh_offset),
     file_name_length |-> header.file_name_length,
     extra_field_length |-> header.extra_field_length,
     file_comment_length |-> header.file_comment_length,
     filename |-> detect_filename(name, header.flags.filename_unicode, fields)]

cd_checked(header, name, parsed, used) ==
    IF ~parsed.ok THEN CdErr(parsed.err, used)
    ELSE CdResult("Entry", NoError, used,
             cd_build(header, name, parsed.fields, get_zip64_extra_field(parsed.fields)),
             NoCombined, NoString)

cd_fields(header, at, name, extra) ==
    IF name.st # "ok" THEN CdShort(name, at)
    ELSE IF extra.st # "ok" THEN CdShort(extra, at + name.n)
    ELSE cd_checked(header, name.bytes,
             parse_extra_fields(extra.bytes, header.uncompressed_size,
                 header.compressed_size, Some(header.lh_offset), Some(header.disk_start)),
             at + name.n + extra.n)

cd_names(buf, eof, header, at, name) ==
    cd_fields(header, at, name,
        read_bytes(Drop(buf, at + name.n), eof, header.extra_field_length))

cd_header(buf, eof, header, at) ==
    cd_names(buf, eof, header, at, read_bytes(Drop(buf, at), eof, header.file_name_length))

cd_body(buf, eof, used, h) ==
    IF h.st # "ok" THEN CdShort(h, used)
    ELSE cd_header(buf, eof, CentralDirectoryRecord(h.bytes), used + CDH_LENGTH)

\* "Read the record": the 42-byte header, the filename and the extra field, the
\* reconciled sizes and offset, the filename.  The record's comment is not read.
cd_record(buf, eof, used) ==
    cd_body(buf, eof, used, read_exact(Drop(buf, used), eof, CDH_LENGTH))

\* The EOCDR body and the archive comment, after an EOCDR_SIGNATURE.
cd_end(buf, eof, used, zip64_eocdr) ==
    LET e == read_exact(Drop(buf, used), eof, EOCDR_LENGTH)
    IN  IF e.st # "ok" THEN CdShort(e, used)
        ELSE LET eocdr == EndOfCentralDirectoryHeader(e.bytes)
                 comment == read_string(Drop(buf, used + EOCDR_LENGTH), eof,
                                eocdr.file_comm_length, "Utf8")
             IN  IF comment.st # "ok" THEN CdShort(comment, used + EOCDR_LENGTH)
                 ELSE CdResult("End", NoError, used + EOCDR_LENGTH + comment.n, NoCdEntry,
                          IF IsSome(zip64_eocdr)
                          THEN Combined_combine(eocdr, Unwrap(zip64_eocdr))
                          ELSE Combined_from(eocdr),
                          comment.string)

\* A variant that takes the 20 bytes after the ZIP64 record for a locator whatever
\* signature they begin with.
try_from_reader_unsigned(buf, eof) ==
    LET s == read_exact(buf, eof, SIGNATURE_LENGTH)
    IN  IF s.st # "ok" THEN [st |-> s.st, locator |-> None, n |-> s.n]
        ELSE LET b == read_exact(Drop(buf, SIGNATURE_LENGTH), eof, ZIP64_EOCDL_LENGTH)
             IN  IF b.st # "ok"
                 THEN [st |-> b.st, locator |-> None, n |-> SIGNATURE_LENGTH + b.n]
                 ELSE [st |-> "ok", locator |-> Some(Zip64EndOfCentralDirectoryLocator(b.bytes)),
                       n |-> SIGNATURE_LENGTH + ZIP64_EOCDL_LENGTH]

\* Zip64EndOfCentralDirectoryLocator::try_from_reader
try_from_reader(buf, eof) ==
    LET s == read_exact(buf, eof, SIGNATURE_LENGTH)
    IN  IF s.st # "ok" THEN [st |-> s.st, locator |-> None, n |-> s.n]
        ELSE IF s.bytes # to_le_bytes32(ZIP64_EOCDL_SIGNATURE)
        THEN [st |-> "ok", locator |-> None, n |-> SIGNATURE_LENGTH]
        ELSE LET b == read_exact(Drop(buf, SIGNATURE_LENGTH), eof, ZIP64_EOCDL_LENGTH)
             IN  IF b.st # "ok"
                 THEN [st |-> b.st, locator |-> None, n |-> SIGNATURE_LENGTH + b.n]
                 ELSE [st |-> "ok", locator |-> Some(Zip64EndOfCentralDirectoryLocator(b.bytes)),
                       n |-> SIGNATURE_LENGTH + ZIP64_EOCDL_LENGTH]

\* The ZIP64 branch once the 52 bytes z of the record are read and the reader is `at`
\* bytes into the call: the locator, its offset, the EOCDR signature, the EOCDR.
cd_zip64_locator(buf, eof, used, offset, z, at) ==
    IF z.st # "ok" THEN CdShort(z, used)
    ELSE LET l == try_from_reader(Drop(buf, at), eof)
         IN  IF l.st # "ok" THEN CdShort(l, at)
             ELSE IF ~IsSome(l.locator)
             THEN CdErr(Error("MissingZip64EndOfCentralDirectoryLocator"), at + l.n)
             ELSE IF Unwrap(l.locator).relative_offset # to_le_bytes64(offset)
             THEN CdErr(Error2("InvalidZip64EndOfCentralDirectoryLocatorOffset",
                               Unwrap(l.locator).relative_offset, to_le_bytes64(offset)),
                        at + l.n)
             ELSE LET s == read_exact(Drop(buf, at + l.n), eof, SIGNATURE_LENGTH)
                  IN  IF s.st # "ok" THEN CdShort(s, at + l.n)
                      ELSE IF s.bytes # to_le_bytes32(EOCDR_SIGNATURE)
                      THEN CdErr(Error2("UnexpectedHeaderError", s.bytes,
                                        to_le_bytes32(EOCDR_SIGNATURE)),
                                 at + l.n + SIGNATURE_LENGTH)
                      ELSE cd_end(buf, eof, at + l.n + SIGNATURE_LENGTH,
                               Some(Zip64EndOfCentralDirectoryRecord(z.bytes)))

\* A variant that skips to the end the record declares before it looks for the locator:
\* the size field counts the 44 bytes after itself and the extensible data.
cd_zip64_end_skipping_extensible(buf, eof, used, offset) ==
    LET z == read_exact(Drop(buf, used), eof, ZIP64_EOCDR_LENGTH)
        declared == IF z.st = "ok" THEN AsLen(SubSeq(z.bytes, 1, 8)) ELSE 0
        extensible == IF declared > ZIP64_EOCDR_LENGTH - 8
                      THEN declared - (ZIP64_EOCDR_LENGTH - 8) ELSE 0
    IN  cd_zip64_locator(buf, eof, used, offset, z,
            Min(Len(buf), used + ZIP64_EOCDR_LENGTH + extensible))

\* The ZIP64_EOCDR_SIGNATURE branch of next; `offset` is self.offset + bytes_read()
\* taken right after the signature.
cd_zip64_end(buf, eof, used, offset) ==
    cd_zip64_locator(buf, eof, used, offset,
        read_exact(Drop(buf, used), eof, ZIP64_EOCDR_LENGTH), used + ZIP64_EOCDR_LENGTH)

\* A variant that takes the offset it is given for the position after the signature.
CentralDirectoryReader_new_after_signature(offset) ==
    [initial |-> TRUE, offset |-> offset + SIGNATURE_LENGTH, counting |-> Counting_new]

\* CentralDirectoryReader::new
CentralDirectoryReader_new(offset) ==
    [initial |-> TRUE, offset |-> offset, counting |-> Counting_new]

\* The signature of a call that is not the first, and the branch it selects.
cd_next_signature(reader, buf, eof, s) ==
    IF s.st # "ok" THEN CdShort(s, 0)
    ELSE IF s.bytes = to_le_bytes32(CDH_SIGNATURE)
    THEN cd_record(buf, eof, SIGNATURE_LENGTH)
    ELSE IF s.bytes = to_le_bytes32(EOCDR_SIGNATURE)
    THEN cd_end(buf, eof, SIGNATURE_LENGTH, None)
    ELSE IF s.bytes = to_le_bytes32(ZIP64_EOCDR_SIGNATURE)
    THEN cd_zip64_end(buf, eof, SIGNATURE_LENGTH,
             reader.offset + bytes_read(Counting_advance(reader.counting, s.n)))
    ELSE CdErr(Error2("UnexpectedHeaderError", s.bytes, to_le_bytes32(CDH_SIGNATURE)),
               SIGNATURE_LENGTH)

\* A variant of next that reads a signature on its first call as well.
cd_next_reading_first_signature(reader, buf, eof) ==
    cd_next_signature(reader, buf, eof, read_exact(buf, eof, SIGNATURE_LENGTH))

\* CentralDirectoryReader::next
cd_next(reader, buf, eof) ==
    IF reader.initial THEN cd_record(buf, eof, 0)
    ELSE cd_next_signature(reader, buf, eof, read_exact(buf, eof, SIGNATURE_LENGTH))

(* ---------------- encoders and descriptor readers (parse.rs) ----------- *)

\* A variant that writes the count of entries before the count of entries on the disk.
Zip64EndOfCentralDirectoryRecord_as_bytes_misordered(r) ==
    r.size_of_zip64_end_of_cd_record
    \o to_le_bytes16(r.version_made_by)
    \o to_le_bytes16(r.version_needed_to_extract)
    \o r.disk_number
    \o r.disk_number_start_of_cd
    \o r.num_entries_in_directory
    \o r.num_entries_in_directory_on_disk
    \o r.directory_size
    \o r.offset_of_start_of_directory

\* Zip64EndOfCentralDirectoryRecord::as_bytes
Zip64EndOfCentralDirectoryRecord_as_bytes(r) ==
    r.size_of_zip64_end_of_cd_record
    \o to_le_bytes16(r.version_made_by)
    \o to_le_bytes16(r.version_needed_to_extract)
    \o r.disk_number
    \o r.disk_number_start_of_cd
    \o r.num_entries_in_directory_on_disk
    \o r.num_entries_in_directory
    \o r.directory_size
    \o r.offset_of_start_of_directory

NoDescriptor == [crc |-> <<>>, compressed_size |-> <<>>, uncompressed_size |-> <<>>]

DescriptorResult(st, descriptor, n) == [st |-> st, descriptor |-> descriptor, n |-> n]

\* A variant that never takes the first four bytes for the optional signature.
DataDescriptor_from_reader_unsigned(buf, eof) ==
    LET d == read_exact(buf, eof, DATA_DESCRIPTOR_LENGTH)
    IN  IF d.st # "ok" THEN DescriptorResult(d.st, NoDescriptor, d.n)
        ELSE DescriptorResult("ok",
                 [crc |-> u32_from_le_bytes(d.bytes, 0),
                  compressed_size |-> u32_from_le_bytes(d.bytes, 4),
                  uncompressed_size |-> u32_from_le_bytes(d.bytes, 8)],
                 DATA_DESCRIPTOR_LENGTH)

\* DataDescriptor::from_reader
DataDescriptor_from_reader(buf, eof) ==
    LET d == read_exact(buf, eof, DATA_DESCRIPTOR_LENGTH)
    IN  IF d.st # "ok" THEN DescriptorResult(d.st, NoDescriptor, d.n)
        ELSE IF Slice(d.bytes, 0, SIGNATURE_LENGTH) = to_le_bytes32(DATA_DESCRIPTOR_SIGNATURE)
        THEN LET tail == read_exact(Drop(buf, DATA_DESCRIPTOR_LENGTH), eof, SIGNATURE_LENGTH)
             IN  IF tail.st # "ok"
                 THEN DescriptorResult(tail.st, NoDescriptor, DATA_DESCRIPTOR_LENGTH + tail.n)
                 ELSE DescriptorResult("ok",
                          [crc |-> u32_from_le_bytes(d.bytes, 4),
                           compressed_size |-> u32_from_le_bytes(d.bytes, 8),
                           uncompressed_size |-> u32_from_le_bytes(tail.bytes, 0)],
                          DATA_DESCRIPTOR_LENGTH + SIGNATURE_LENGTH)
        ELSE DescriptorResult("ok",
                 [crc |-> u32_from_le_bytes(d.bytes, 0),
                  compressed_size |-> u32_from_le_bytes(d.bytes, 4),
                  uncompressed_size |-> u32_from_le_bytes(d.bytes, 8)],
                 DATA_DESCRIPTOR_LENGTH)

\* DataDescriptor::as_bytes and Zip64DataDescriptor::as_bytes: the CRC, then the sizes.
DataDescriptor_as_bytes(d) == d.crc \o d.compressed_size \o d.uncompressed_size

\* Zip64DataDescriptor::from_reader
Zip64DataDescriptor_from_reader(buf, eof) ==
    LET signature == read_exact(buf, eof, SIGNATURE_LENGTH)
    IN  IF signature.st # "ok" THEN DescriptorResult(signature.st, NoDescriptor, signature.n)
        ELSE IF signature.bytes = to_le_bytes32(DATA_DESCRIPTOR_SIGNATURE)
        THEN LET d == read_exact(Drop(buf, SIGNATURE_LENGTH), eof, ZIP64_DATA_DESCRIPTOR_LENGTH)
             IN  IF d.st # "ok"
                 THEN DescriptorResult(d.st, NoDescriptor, SIGNATURE_LENGTH + d.n)
                 ELSE DescriptorResult("ok",
                          [crc |-> u32_from_le_bytes(d.bytes, 0),
                           compressed_size |-> u64_from_le_bytes(d.bytes, 4),
                           uncompressed_size |-> u64_from_le_bytes(d.bytes, 12)],
                          SIGNATURE_LENGTH + ZIP64_DATA_DESCRIPTOR_LENGTH)
        ELSE LET d == read_exact(Drop(buf, SIGNATURE_LENGTH), eof,
                          ZIP64_DATA_DESCRIPTOR_LENGTH - SIGNATURE_LENGTH)
             IN  IF d.st # "ok"
                 THEN DescriptorResult(d.st, NoDescriptor, SIGNATURE_LENGTH + d.n)
                 ELSE DescriptorResult("ok",
                          [crc |-> signature.bytes,
                           compressed_size |-> u64_from_le_bytes(d.bytes, 0),
                           uncompressed_size |-> u64_from_le_bytes(d.bytes, 8)],
                          ZIP64_DATA_DESCRIPTOR_LENGTH)

(* ------------------------------ state --------------------------------- *)

VARIABLES
    src,        \* the bytes the source holds that no reader has consumed yet
    eof,        \* the source has delivered its last byte
    wphase,     \* what the source delivers next: "entries", "cd" or "done"
    wEntries,   \* local entries delivered
    wCd,        \* central-directory records delivered
    wellFormed, \* every record delivered so far is one of a well-formed archive
    cur,        \* the record delivered last: what it is, where it starts, its shape
    pos,        \* bytes consumed from the source (the cursor's position)
    live,       \* the reader values that exist: "Ready", "Reading", "Cd"
    counting,   \* the Counting adapter of the streaming reader
    reading,    \* the Reading reader: its entry reader, its descriptor flag, its entry
    ended,      \* next-entry has returned the end of the entries
    cdr,        \* the CentralDirectoryReader
    nOpen,      \* next-entry calls that returned a Reading reader
    nClose,     \* done and skip calls that returned a Ready reader
    cdCalls,    \* calls of CentralDirectoryReader::next that returned
    last,       \* the call that returned last and what it returned, until the next call polls
    given,      \* the arguments handed to the extra-field parser and the record reader
    parsed      \* what the parser or the record reader returned for them

vars == <<src, eof, wphase, wEntries, wCd, wellFormed, cur, pos, live, counting, reading,
          ended, cdr, nOpen, nClose, cdCalls, last, given, parsed>>

NoReading ==
    [reader |-> new_with_owned(STORED, to_le_bytes64(0)), has_data_descriptor |-> FALSE,
     entry |-> None, delivered |-> 0]

NoCdr == [initial |-> FALSE, offset |-> 0, counting |-> Counting_new]

\* No arguments: the parser and the record reader are not being exercised on their own.
NoGiven ==
    [owner |-> "none", flags |-> 0, uncompressed_size |-> <<>>, compressed_size |-> <<>>,
     lh_offset |-> <<>>, disk_start |-> 0, records |-> <<>>, rest |-> <<>>]

NoParsed ==
    [op |-> "none", fields |-> FieldsOk(<<>>),
     cd |-> CdResult("Pending", NoError, 0, NoCdEntry, NoCombined, NoString)]

Last(op, st, err) ==
    [op |-> op, st |-> st, err |-> err, at |-> 0, n |-> 0, dd |-> 0, sig |-> <<>>,
     unread |-> FALSE, rec |-> [what |-> "none", start |-> 0, shape |-> BlankShape],
     entry |-> NoEntry, cdentry |-> NoCdEntry, comment |-> NoString, first |-> FALSE,
     good |-> FALSE, head |-> <<>>, error |-> NoError, record |-> NoCombined,
     failed |-> FALSE, after |-> FALSE]

\* The streaming reader after ZipFileReader::new, over a source that has delivered nothing.
ReaderInit ==
    /\ src = <<>>
    /\ eof = FALSE
    /\ wphase = "entries"
    /\ wEntries = 0
    /\ wCd = 0
    /\ wellFormed = TRUE
    /\ cur = [what |-> "none", start |-> 0, shape |-> BlankShape]
    /\ pos = 0
    /\ live = {"Ready"}
    /\ counting = Counting_new
    /\ reading = NoReading
    /\ ended = FALSE
    /\ cdr = NoCdr
    /\ nOpen = 0
    /\ nClose = 0
    /\ cdCalls = 0
    /\ last = Last("new", "Ready", "none")

Init ==
    /\ ReaderInit
    /\ given = NoGiven
    /\ parsed = NoParsed

(* ----------------------------- the source ------------------------------ *)

\* Some call a live reader can make is suspended on bytes the source has not delivered.
Starved ==
    /\ ~eof
    /\ \/ "Ready" \in live /\ lfh(src, eof, 0).st = "Pending"
       \/ /\ "Reading" \in live
          /\ \/ done_result(reading.reader, reading.has_data_descriptor, src, eof).st = "Pending"
             \/ skip_result(reading.reader, reading.has_data_descriptor, src, eof).st = "Pending"
       \/ "Cd" \in live /\ cd_next(cdr, src, eof).st = "Pending"

\* A call has begun and is suspended on the source: the call before it is no longer
\* the last one; what is carried from call to call stays.
Suspended(l) ==
    [Last("poll", "Pending", "none") EXCEPT !.sig = l.sig, !.good = l.good, !.failed = l.failed]

Put(what, shape, bytes) ==
    /\ src' = src \o bytes
    /\ cur' = [what |-> what, start |-> pos + Len(src), shape |-> shape]

\* The source delivers the next record of the archive.
Deliver ==
    /\ Starved
    /\ \/ /\ wphase = "entries"
          /\ wEntries < MaxEntries
          /\ \E k \in LocalShapes : Put("entry", k, LocalEntryBytes(k))
          /\ wEntries' = wEntries + 1
          /\ wellFormed' = (wellFormed /\ ~(cur'.shape.dd /\ cur'.shape.method = STORED))
          /\ UNCHANGED <<eof, wphase, wCd>>
       \/ /\ \/ wphase = "entries" /\ wEntries >= 1
             \/ wphase = "cd" /\ wCd < wEntries
          /\ \E k \in CdShapes :
                /\ k.badExtra => (wCd = 0 /\ wEntries = 2)
                /\ Put("cd", k, CdRecordBytes(k))
          /\ wphase' = "cd"
          /\ wCd' = wCd + 1
          /\ wellFormed' = (wellFormed /\ ~cur'.shape.badExtra)
          /\ UNCHANGED <<eof, wEntries>>
       \/ /\ \/ wphase = "entries" /\ wEntries = 0
             \/ wphase = "cd" /\ wCd = wEntries
          /\ \E k \in EndShapes : Put("tail", k, TailBytes(k, pos + Len(src), wEntries))
          /\ wphase' = "done"
          /\ eof' = TRUE
          /\ wellFormed' = (wellFormed /\ cur'.shape.tail = "ok")
          /\ UNCHANGED <<wEntries, wCd>>
       \/ /\ wphase \in {"entries", "cd"}
          /\ Put("garbage", BlankShape, GarbageBytes)
          /\ wphase' = "done"
          /\ eof' = TRUE
          /\ wellFormed' = FALSE
          /\ UNCHANGED <<wEntries, wCd>>
    /\ last' = Suspended(last)
    /\ UNCHANGED <<pos, live, counting, reading, ended, cdr, nOpen, nClose, cdCalls,
                   given, parsed>>

(* ------------------------ the streaming reader ------------------------- *)

\* A variant that takes the offset once the signature is read.
next_file_offset_after_signature(c) == bytes_read(c) + SIGNATURE_LENGTH

\* let file_offset = self.0.0.bytes_read();
next_file_offset(c) == bytes_read(c)

\* let length = if entry.data_descriptor { u64::MAX } else { entry.compressed_size };
entry_length(entry) == IF entry.data_descriptor THEN U64_MAX ELSE entry.compressed_size

\* A variant in which a transition method borrows the reader and leaves it usable.
Transition_borrowing(readers, from, to) == readers \cup {to}

\* A transition method takes the reader by value and gives a new reader back.
Transition(readers, from, to) == (readers \ {from}) \cup {to}

\* A call that fails or ends the entries has taken the reader by value all the same.
Dropped(readers, from) == readers \ {from}

Consumed(n) ==
    /\ src' = Drop(src, n)
    /\ pos' = pos + n

\* What a next-entry call that returned r leaves behind.
next_leaves(with_entry, r) ==
    /\ r.st # "Pending"
    /\ Consumed(r.n)
    /\ counting' = Counting_advance(counting, r.n)
    /\ IF r.st = "Some"
       THEN /\ live' = Transition(live, "Ready", "Reading")
            /\ reading' =
                 [reader |-> new_with_owned(r.entry.compression, entry_length(r.entry)),
                  has_data_descriptor |-> r.entry.data_descriptor,
                  entry |-> IF with_entry THEN Some(r.entry) ELSE None,
                  delivered |-> 0]
            /\ nOpen' = nOpen + 1
       ELSE /\ live' = Dropped(live, "Ready")
            /\ UNCHANGED <<reading, nOpen>>
    /\ ended' = (r.st = "None")
    /\ last' = [Last("next", r.st, r.err.kind) EXCEPT
                   !.at = pos, !.n = r.n, !.sig = r.sig, !.entry = r.entry,
                   !.rec = cur]
    /\ UNCHANGED <<eof, wphase, wEntries, wCd, wellFormed, cur, cdr, nClose, cdCalls,
                   given, parsed>>

\* A variant in which an error of lfh is taken for the end of the entries.
next_returns_swallowing_error(with_entry, r) ==
    next_leaves(with_entry, IF r.st = "Err" THEN [r EXCEPT !.st = "None", !.err = NoError] ELSE r)

\* The `?` and the match on what lfh returned.
next_returns(with_entry, r) == next_leaves(with_entry, r)

next_entry(with_entry) ==
    /\ "Ready" \in live
    /\ next_returns(with_entry, lfh(src, eof, next_file_offset(counting)))

\* ZipFileReader<Ready>::next_without_entry
next_without_entry == next_entry(FALSE)

\* ZipFileReader<Ready>::next_with_entry
next_with_entry == next_entry(TRUE)

\* A read of the entry's content through reader_mut(), into a buffer of `size` bytes.
read(size) ==
    /\ "Reading" \in live
    /\ LET r == entry_read(reading.reader, src, eof, size)
       IN  /\ r.st # "pending"
           /\ Consumed(r.n)
           /\ counting' = Counting_advance(counting, r.n)
           /\ reading' = [reading EXCEPT !.reader = r.reader, !.delivered = @ + r.k]
           /\ last' = [Last("read", IF r.st = "ok" THEN "Ok" ELSE "Err",
                            IF r.st = "ok" THEN "none" ELSE "Io") EXCEPT
                          !.at = pos, !.n = r.n]
    /\ UNCHANGED <<eof, wphase, wEntries, wCd, wellFormed, cur, live, ended, cdr, nOpen,
                   nClose, cdCalls, given, parsed>>

close(op, r) ==
    /\ r.st # "Pending"
    /\ Consumed(r.n)
    /\ counting' = Counting_advance(counting, r.n)
    /\ live' = IF r.st = "Ready" THEN Transition(live, "Reading", "Ready")
               ELSE Dropped(live, "Reading")
    /\ nClose' = IF r.st = "Ready" THEN nClose + 1 ELSE nClose
    /\ reading' = NoReading
    /\ last' = [Last(op, r.st, r.err.kind) EXCEPT
                   !.at = pos, !.n = r.n, !.dd = r.dd, !.rec = cur,
                   !.unread = reading.delivered < cur.shape.body]
    /\ UNCHANGED <<eof, wphase, wEntries, wCd, wellFormed, cur, ended, cdr, nOpen, cdCalls,
                   given, parsed>>

\* ZipFileReader<Reading>::done
done ==
    /\ "Reading" \in live
    /\ close("done", done_result(reading.reader, reading.has_data_descriptor, src, eof))

\* ZipFileReader<Reading>::skip
skip ==
    /\ "Reading" \in live
    /\ close("skip", skip_result(reading.reader, reading.has_data_descriptor, src, eof))

(* -------------------- the central directory reader --------------------- *)

\* CentralDirectoryReader::new(reader, offset), once the entries have ended; the caller
\* passes the position of the signature that ended them, or the position after it.
new_cd ==
    /\ ended
    /\ live = {}
    /\ cdCalls = 0
    /\ \E offset \in {pos - SIGNATURE_LENGTH, pos} :
          /\ cdr' = CentralDirectoryReader_new(offset)
          /\ last' = [Last("cd_new", "Ok", "none") EXCEPT
                         !.at = pos, !.sig = last.sig,
                         !.good = (offset = pos - SIGNATURE_LENGTH)]
    /\ live' = {"Cd"}
    /\ ended' = FALSE
    /\ UNCHANGED <<src, eof, wphase, wEntries, wCd, wellFormed, cur, pos, counting, reading,
                   nOpen, nClose, cdCalls, given, parsed>>

\* A variant in which a first call that fails leaves `initial` set.
cd_next_returns_keeping_initial(r) ==
    /\ r.st # "Pending"
    /\ Consumed(r.n)
    /\ cdr' = [cdr EXCEPT !.initial = (@ /\ r.st = "Err"),
                          !.counting = Counting_advance(@, r.n)]
    /\ cdCalls' = cdCalls + 1
    /\ last' = [Last("cd_next", r.st, r.err.kind) EXCEPT
                   !.at = pos, !.n = r.n, !.cdentry = r.entry,
                   !.comment = r.comment, !.first = cdr.initial,
                   !.sig = last.sig, !.good = last.good, !.rec = cur,
                   !.head = Slice(src, 0, Min(SIGNATURE_LENGTH, Len(src))),
                   !.error = r.err, !.record = r.record,
                   !.failed = (last.failed \/ r.st = "Err"), !.after = last.failed]
    /\ UNCHANGED <<eof, wphase, wEntries, wCd, wellFormed, cur, live, counting, reading,
                   ended, nOpen, nClose, given, parsed>>

\* What a call of CentralDirectoryReader::next that returned r leaves behind.
cd_next_returns(r) ==
    /\ r.st # "Pending"
    /\ Consumed(r.n)
    /\ cdr' = [cdr EXCEPT !.initial = FALSE, !.counting = Counting_advance(@, r.n)]
    /\ cdCalls' = cdCalls + 1
    /\ last' = [Last("cd_next", r.st, r.err.kind) EXCEPT
                   !.at = pos, !.n = r.n, !.cdentry = r.entry,
                   !.comment = r.comment, !.first = cdr.initial,
                   !.sig = last.sig, !.good = last.good, !.rec = cur,
                   !.head = Slice(src, 0, Min(SIGNATURE_LENGTH, Len(src))),
                   !.error = r.err, !.record = r.record,
                   !.failed = (last.failed \/ r.st = "Err"), !.after = last.failed]
    /\ UNCHANGED <<eof, wphase, wEntries, wCd, wellFormed, cur, live, counting, reading,
                   ended, nOpen, nClose, given, parsed>>

\* CentralDirectoryReader::next
\* CentralDirectoryReader::next borrows the reader: it can be called again whatever the
\* call before it returned.  Calls are counted up to one for each entry and one more.
next ==
    /\ "Cd" \in live
    /\ cdCalls < MaxEntries + 1
    /\ cd_next_returns(cd_next(cdr, src, eof))

Next ==
    \/ Deliver
    \/ next_without_entry
    \/ next_with_entry
    \/ \E size \in 1..MaxRead : read(size)
    \/ done
    \/ skip
    \/ new_cd
    \/ next

Spec == Init /\ [][Next]_vars

(* ------------- the extra-field parser and the record reader ------------ *)
(* parse_extra_fields and the record branch of CentralDirectoryReader::next *)
(* are functions of a header and an extra-field blob.  Here they are        *)
(* applied to headers whose sizes, offset and disk number hold the sentinel *)
(* or a value, and to blobs made of up to MaxFields records.                *)

\* The slots of a ZIP64 field in their order: 8, 8, 8 and 4 bytes.
Zip64Stream ==
    to_le_bytes64(11) \o to_le_bytes64(12) \o to_le_bytes64(13) \o to_le_bytes32(14)

\* Bodies of a ZIP64 field: the first L bytes of the slots, and the 16 bytes that
\* repeat the sizes 5 and 6 a header holds.
Zip64Repeat == to_le_bytes64(5) \o to_le_bytes64(6)

Zip64Bodies == { Slice(Zip64Stream, 0, L) : L \in {0, 8, 12, 16, 24, 28} } \cup { Zip64Repeat }

InfoZipBodies == { <<>>, <<1, 1, 2, 3>>, <<1, 1, 2, 3, 4>>, <<1, 1, 2, 3, 4, 120>>, <<2, 9>> }

\* One record of a blob: a header ID, the size it declares, its body.
ExtraRecord(id, body) == [id |-> id, size |-> Len(body), body |-> body]

\* Records that exercise the ZIP64 decoder, and one of an ID the parser does not know.
Zip64Records ==
    { ExtraRecord(ZIP64_EXTENDED_INFORMATION_EXTRA_FIELD, b) : b \in Zip64Bodies }
    \cup { ExtraRecord(9, <<7>>) }

\* Records that exercise the other decoders and the walk over the blob.
OtherRecords ==
    { ExtraRecord(INFO_ZIP_UNICODE_PATH_EXTRA_FIELD, b) : b \in InfoZipBodies }
    \cup { ExtraRecord(INFO_ZIP_UNICODE_COMMENT_EXTRA_FIELD, b) : b \in InfoZipBodies }
    \cup { ExtraRecord(9, <<7>>), ExtraRecord(10, <<>>),
           ExtraRecord(ZIP64_EXTENDED_INFORMATION_EXTRA_FIELD, Zip64Repeat) }

\* What follows the records of a blob: nothing, bytes too few for a record header,
\* a record that declares a byte more than the blob holds.
ShortRest == <<12, 0, 1>>
OverRest == <<12, 0, 2, 0, 7>>
BlobRests == { <<>>, ShortRest, OverRest }

\* id || size || body of one record
RecordBytes(r) == to_le_bytes16(r.id) \o to_le_bytes16(r.size) \o r.body

RECURSIVE RecordsBytes(_)
RecordsBytes(rs) ==
    IF rs = <<>> THEN <<>> ELSE RecordBytes(Head(rs)) \o RecordsBytes(Tail(rs))

\* The extra-field blob of the arguments.
Blob(g) == RecordsBytes(g.records) \o g.rest

RecordLists(records) == UNION { [1..n -> records] : n \in 0..MaxFields }

\* A local file header hands the parser its two sizes only; a central-directory record
\* hands it its offset and its disk number as well.  Every header meets the ZIP64
\* records; a local header and a central one without a sentinel meet the others.
Givens ==
    { [owner |-> "local", flags |-> 0, uncompressed_size |-> u, compressed_size |-> c,
       lh_offset |-> <<>>, disk_start |-> 0, records |-> rs, rest |-> <<>>] :
        u \in {NON_ZIP64_MAX_SIZE, to_le_bytes32(5)},
        c \in {NON_ZIP64_MAX_SIZE, to_le_bytes32(6)},
        rs \in RecordLists(Zip64Records) }
    \cup
    { [owner |-> "central", flags |-> 0, uncompressed_size |-> u, compressed_size |-> c,
       lh_offset |-> o, disk_start |-> d, records |-> rs, rest |-> <<>>] :
        u \in {NON_ZIP64_MAX_SIZE, to_le_bytes32(5)},
        c \in {NON_ZIP64_MAX_SIZE, to_le_bytes32(6)},
        o \in {NON_ZIP64_MAX_SIZE, to_le_bytes32(3)},
        d \in {DISK_SENTINEL, 0},
        rs \in RecordLists(Zip64Records) }
    \cup
    { [owner |-> w.owner, flags |-> w.flags, uncompressed_size |-> to_le_bytes32(5),
       compressed_size |-> to_le_bytes32(6),
       lh_offset |-> IF w.owner = "central" THEN to_le_bytes32(3) ELSE <<>>,
       disk_start |-> 0, records |-> rs, rest |-> t] :
        w \in { [owner |-> "local", flags |-> 0], [owner |-> "central", flags |-> 0],
                [owner |-> "central", flags |-> FILENAME_UNICODE] },
        rs \in RecordLists(OtherRecords), t \in BlobRests }

\* The filename bytes of the record the record reader is given.
GivenName == <<97>>

\* The offset and the disk number as the owner of the blob passes them.
GivenOffset(g) == IF g.owner = "central" THEN Some(g.lh_offset) ELSE None
GivenDisk(g) == IF g.owner = "central" THEN Some(g.disk_start) ELSE None

ParseInit ==
    /\ ReaderInit
    /\ given \in Givens
    /\ parsed = NoParsed

Untouched ==
    UNCHANGED <<src, eof, wphase, wEntries, wCd, wellFormed, cur, pos, live, counting,
                reading, ended, cdr, nOpen, nClose, cdCalls, last, given>>

\* parse_extra_fields, as lfh and the record reader call it on the blob of a header.
parse_blob ==
    /\ parsed.op = "none"
    /\ given.owner # "none"
    /\ parsed' = [parsed EXCEPT
                     !.op = "parse_extra_fields",
                     !.fields = parse_extra_fields(Blob(given), given.uncompressed_size,
                                    given.compressed_size, GivenOffset(given),
                                    GivenDisk(given))]
    /\ Untouched

\* The first call of CentralDirectoryReader::next on a directory record with the
\* given header fields and blob.
read_record ==
    /\ parsed.op = "none"
    /\ given.owner = "central"
    /\ parsed' = [parsed EXCEPT
                     !.op = "cd_next",
                     !.cd = cd_next(CentralDirectoryReader_new(0),
                                CdRecordOf(given.flags, given.compressed_size,
                                    given.uncompressed_size,
                                    given.disk_start, given.lh_offset, GivenName,
                                    Blob(given), <<>>),
                                TRUE)]
    /\ Untouched

ParseNext ==
    \/ parse_blob
    \/ read_record

ParseSpec == ParseInit /\ [][ParseNext]_vars

(* ------------------- the record codecs (spec/parse.rs) ------------------ *)
(* The decoders and encoders of the fixed-length records are functions of   *)
(* bytes.  Here each is applied to bodies whose bytes differ from position  *)
(* to position, to records of chosen field values, and to sources that end  *)
(* before, at and after the bytes a reader asks for.                        *)

\* The body of the ZIP64 end record of test_parse_zip64_eocdr.
FixtureBody ==
    to_le_bytes64(44) \o to_le_bytes16(798) \o to_le_bytes16(45)
    \o to_le_bytes32(0) \o to_le_bytes32(0)
    \o to_le_bytes64(1) \o to_le_bytes64(1) \o to_le_bytes64(47) \o to_le_bytes64(64)

\* Arguments of the codecs.  Bodies: the fixture, and bodies whose byte at position i is
\* a function of i that tells the positions apart.  Scalars: a small value, a value with
\* every byte different, the largest value.  Locator sources: a signature, 16 bytes (those
\* of test_parse_zip64_eocdl among them) and what follows, cut where the source ends.
\* Descriptors: a CRC that is, or is not, the value of the optional signature, followed
\* in the source by nothing or by the bytes of another record.  Sources for read_bytes:
\* up to three bytes, asked for up to four.
Codecs ==
    LET Ramp(length, step, first) == [i \in 1..length |-> (first + step * i) % 256]
        RecordBodies ==
            { FixtureBody }
            \cup { Ramp(ZIP64_EOCDR_LENGTH, k, c) : k \in {1, 3, 5}, c \in {0, 100, 200} }
        U64Values == { to_le_bytes64(44), <<1, 2, 3, 4, 5, 6, 7, 8>>, U64_MAX }
        U32Values == { to_le_bytes32(0), <<9, 8, 7, 6>> }
        Zip64Ends ==
            { [size_of_zip64_end_of_cd_record |-> to_le_bytes64(44),
               version_made_by |-> v, version_needed_to_extract |-> 45,
               disk_number |-> d, disk_number_start_of_cd |-> to_le_bytes32(0),
               num_entries_in_directory_on_disk |-> e,
               num_entries_in_directory |-> to_le_bytes64(2),
               directory_size |-> to_le_bytes64(47), offset_of_start_of_directory |-> o] :
                v \in {45, 798, 65535}, d \in U32Values, e \in U64Values, o \in U64Values }
        LocatorBodies ==
            { to_le_bytes32(0) \o to_le_bytes64(111) \o to_le_bytes32(1),
              Ramp(ZIP64_EOCDL_LENGTH, 3, 7) }
        LocatorSources ==
            { Slice(g \o b \o t, 0, Min(L, Len(g \o b \o t))) :
                g \in { to_le_bytes32(ZIP64_EOCDL_SIGNATURE), to_le_bytes32(EOCDR_SIGNATURE),
                        GarbageBytes },
                b \in LocatorBodies, t \in { <<>>, <<1, 2>> }, L \in {0, 3, 4, 5, 19, 20, 22} }
        Crcs == { CrcBytes, to_le_bytes32(DATA_DESCRIPTOR_SIGNATURE), to_le_bytes32(0) }
        DescriptorRests == { <<>>, <<80, 75, 3, 4>>, Ramp(8, 1, 0) }
    IN  { [codec |-> "zip64_eocdr", bytes |-> b, record |-> r] :
            b \in RecordBodies, r \in { z \in Zip64Ends : z.disk_number = to_le_bytes32(0) } }
        \cup { [codec |-> "zip64_eocdr", bytes |-> FixtureBody, record |-> r] : r \in Zip64Ends }
        \cup { [codec |-> "locator", bytes |-> b] : b \in LocatorSources }
        \cup { [codec |-> "descriptor",
                descriptor |-> [crc |-> c, compressed_size |-> a, uncompressed_size |-> b],
                rest |-> t] :
                 c \in Crcs, a \in U32Values, b \in U32Values, t \in DescriptorRests }
        \cup { [codec |-> "zip64_descriptor",
                descriptor |-> [crc |-> c, compressed_size |-> a, uncompressed_size |-> b],
                rest |-> t] :
                 c \in Crcs, a \in { to_le_bytes64(6), U64_MAX }, b \in U64Values,
                 t \in DescriptorRests }
        \cup { [codec |-> "read_bytes", bytes |-> b, length |-> n] :
                 b \in { <<>>, <<1>>, <<1, 2, 3>> }, n \in 0..4 }

\* Sources for a call of next.  A directory record with a name of two bytes, an extra
\* field of one unknown record of five bytes and no comment, cut where the source ends;
\* an end record that announces a comment of three bytes, after its signature, cut
\* likewise; the end records of a ZIP64 archive whose ZIP64 end record starts `at` bytes
\* into the archive, declares `size` bytes after its size field and is followed by no
\* extensible data, by four bytes or by 20 bytes that are those of a locator.
NextSources ==
    LET WholeRecord ==
            CdRecordOf(0, to_le_bytes32(6), to_le_bytes32(5), 0, to_le_bytes32(3), <<97, 98>>,
                       RecordBytes(ExtraRecord(9, <<7>>)), <<>>)
        WholeEnd ==
            to_le_bytes32(EOCDR_SIGNATURE)
            \o <<0, 0>> \o <<0, 0>> \o to_le_bytes16(1) \o to_le_bytes16(1)
            \o to_le_bytes32(47) \o to_le_bytes32(64)
            \o to_le_bytes16(3) \o <<100, 101, 102>>
        Zip64EndOf(at, size, ext) ==
            to_le_bytes32(ZIP64_EOCDR_SIGNATURE)
            \o to_le_bytes64(size) \o to_le_bytes16(798) \o to_le_bytes16(45)
            \o to_le_bytes32(0) \o to_le_bytes32(0)
            \o to_le_bytes64(1) \o to_le_bytes64(1)
            \o to_le_bytes64(47) \o to_le_bytes64(64)
            \o ext
            \o to_le_bytes32(ZIP64_EOCDL_SIGNATURE) \o to_le_bytes32(0)
            \o to_le_bytes64(at) \o to_le_bytes32(1)
            \o to_le_bytes32(EOCDR_SIGNATURE)
            \o <<0, 0>> \o <<0, 0>> \o to_le_bytes16(1) \o to_le_bytes16(1)
            \o to_le_bytes32(47) \o to_le_bytes32(64)
            \o to_le_bytes16(0)
        ExtensibleData ==
            { <<>>, <<1, 2, 3, 4>>,
              to_le_bytes32(ZIP64_EOCDL_SIGNATURE) \o to_le_bytes32(0) \o to_le_bytes64(0)
              \o to_le_bytes32(1) }
    IN  { [codec |-> "next", what |-> "record", initial |-> TRUE, offset |-> 0,
           bytes |-> Slice(WholeRecord, 0, L), size |-> 0, ext |-> <<>>] :
            L \in CDH_LENGTH..Len(WholeRecord) }
        \cup { [codec |-> "next", what |-> "end", initial |-> FALSE, offset |-> 0,
                bytes |-> Slice(WholeEnd, 0, L), size |-> 0, ext |-> <<>>] :
                 L \in (SIGNATURE_LENGTH + EOCDR_LENGTH)..Len(WholeEnd) }
        \cup { [codec |-> "next", what |-> "zip64", initial |-> FALSE,
                offset |-> at - SIGNATURE_LENGTH,
                bytes |-> Zip64EndOf(at, size, x), size |-> size, ext |-> x] :
                 at \in {4, 51}, x \in ExtensibleData,
                 size \in {ZIP64_EOCDR_LENGTH - 8, ZIP64_EOCDR_LENGTH - 8 + 4,
                           ZIP64_EOCDR_LENGTH - 8 + 20} }

CodecInit ==
    /\ ReaderInit
    /\ given \in Codecs \cup NextSources
    /\ parsed = NoParsed

\* From<[u8; 52]> on the given body, as_bytes on the given record, and each on what
\* the other returned.
decode_zip64_eocdr ==
    /\ parsed.op = "none"
    /\ given.codec = "zip64_eocdr"
    /\ parsed' = [op |-> "zip64_eocdr",
                  record |-> Zip64EndOfCentralDirectoryRecord(given.bytes),
                  bytes |-> Zip64EndOfCentralDirectoryRecord_as_bytes(given.record),
                  encoded |-> Zip64EndOfCentralDirectoryRecord_as_bytes(
                                  Zip64EndOfCentralDirectoryRecord(given.bytes)),
                  decoded |-> Zip64EndOfCentralDirectoryRecord(
                                  Zip64EndOfCentralDirectoryRecord_as_bytes(given.record))]
    /\ Untouched

\* Zip64EndOfCentralDirectoryLocator::try_from_reader on a source that holds the given
\* bytes and then ends.
read_locator ==
    /\ parsed.op = "none"
    /\ given.codec = "locator"
    /\ parsed' = [op |-> "locator", result |-> try_from_reader(given.bytes, TRUE)]
    /\ Untouched

\* DataDescriptor::from_reader on the bytes as_bytes gives for the given descriptor,
\* followed by the rest of the source.
read_descriptor ==
    /\ parsed.op = "none"
    /\ given.codec = "descriptor"
    /\ parsed' = [op |-> "descriptor",
                  bytes |-> DataDescriptor_as_bytes(given.descriptor),
                  result |-> DataDescriptor_from_reader(
                                 DataDescriptor_as_bytes(given.descriptor) \o given.rest, TRUE)]
    /\ Untouched

\* Zip64DataDescriptor::from_reader, likewise.
read_zip64_descriptor ==
    /\ parsed.op = "none"
    /\ given.codec = "zip64_descriptor"
    /\ parsed' = [op |-> "zip64_descriptor",
                  bytes |-> DataDescriptor_as_bytes(given.descriptor),
                  result |-> Zip64DataDescriptor_from_reader(
                                 DataDescriptor_as_bytes(given.descriptor) \o given.rest, TRUE)]
    /\ Untouched

\* read_bytes on a source that holds the given bytes and then ends.
read_to_end ==
    /\ parsed.op = "none"
    /\ given.codec = "read_bytes"
    /\ parsed' = [op |-> "read_bytes", result |-> read_bytes(given.bytes, TRUE, given.length)]
    /\ Untouched

\* One call of CentralDirectoryReader::next, the first or a later one, on a reader
\* whose source holds the given bytes and then ends.
read_next ==
    /\ parsed.op = "none"
    /\ given.codec = "next"
    /\ parsed' = [op |-> "next",
                  result |-> cd_next([CentralDirectoryReader_new(given.offset) EXCEPT
                                         !.initial = given.initial],
                                     given.bytes, TRUE)]
    /\ Untouched

CodecNext ==
    \/ decode_zip64_eocdr
    \/ read_locator
    \/ read_descriptor
    \/ read_zip64_descriptor
    \/ read_to_end
    \/ read_next

CodecSpec == CodecInit /\ [][CodecNext]_vars

(* ------------------------------ properties ----------------------------- *)

\* The call that returned last is a done or skip.
Closed == last.op \in {"done", "skip"}

\* The bytes of the local entry delivered last, as the format lays them out.
EntryLength(k) ==
    SIGNATURE_LENGTH + LFH_LENGTH + k.nameLen + Len(LocalExtra(k)) + Len(BodyBytes(k))
    + Len(DescriptorBytes(k))

\* C1: the streaming reader is in one state at a time and next-entry is made from
\* Ready only: of the Ready and Reading readers at most one exists, the successful
\* next-entry calls are never more than one ahead of the successful done/skip calls
\* and never behind them, a Ready reader exists only when each opened entry was
\* closed, a Reading reader only when exactly one is open.
C1_TypeState ==
    /\ Cardinality(live \cap {"Ready", "Reading"}) <= 1
    /\ nOpen - nClose \in {0, 1}
    /\ "Ready" \in live => nOpen = nClose
    /\ "Reading" \in live => nOpen = nClose + 1

\* A second entry is open after the first was closed.
C1_Witness == nOpen = 2 /\ nClose = 1 /\ live = {"Reading"}

\* C2: done on a body with an unread decompressed byte returns EOFNotReached and
\* leaves no Ready reader; skip in that state returns a Ready reader; on a body read
\* to its end both return a Ready reader.
C2_DoneSkip ==
    /\ (last.op = "done" /\ last.unread) =>
           (last.st = "Err" /\ last.err = "EOFNotReached" /\ "Ready" \notin live)
    /\ (last.op = "skip" /\ last.unread) => (last.st = "Ready" /\ "Ready" \in live)
    /\ (Closed /\ ~last.unread) => (last.st = "Ready" /\ "Ready" \in live)

\* done was called on a body with an unread byte.
C2_Witness == last.op = "done" /\ last.unread /\ last.err = "EOFNotReached"

\* C3: once done or skip has succeeded on an entry, the bytes consumed since the
\* entry's LFH signature began are 4 + 26 + file name + extra field + compressed body
\* + trailing descriptor, so the source stands at the first byte of the next record.
C3_ConsumedPerEntry ==
    (Closed /\ last.st = "Ready") => pos - last.rec.start = EntryLength(last.rec.shape)

\* C4: the file_offset recorded for an opened entry is the absolute position, as the
\* Counting adapter counts it, at which the entry's LFH signature started.
C4_FileOffset ==
    ("Reading" \in live /\ IsSome(reading.entry)) =>
        /\ Unwrap(reading.entry).file_offset = cur.start
        /\ bytes_read(counting) = pos

\* An entry that is not the first of its archive is open with its entry recorded.
C4_Witness ==
    /\ "Reading" \in live
    /\ IsSome(reading.entry)
    /\ Unwrap(reading.entry).file_offset > 0

\* C5: after the body, done and skip consume exactly the trailing descriptor of an
\* entry that declared bit 3: its optional 4-byte signature, then 12 bytes in the
\* 32-bit form or 20 bytes in the ZIP64 form, the ZIP64 form being the one of an entry
\* whose local header carries a ZIP64 extended-information field; and nothing when
\* bit 3 is clear.
C5_DescriptorConsumed ==
    (Closed /\ last.st = "Ready") =>
        last.dd = IF ~last.rec.shape.dd THEN 0
                  ELSE (IF last.rec.shape.ddSig THEN SIGNATURE_LENGTH ELSE 0)
                       + (IF last.rec.shape.zip64 THEN ZIP64_DATA_DESCRIPTOR_LENGTH
                          ELSE DATA_DESCRIPTOR_LENGTH)

\* C6 as stated: done and skip return to Ready on an entry with bit 3 only if the
\* compressed size its descriptor carries is the number of body bytes consumed.
C6_DescriptorAgrees ==
    (Closed /\ last.st = "Ready" /\ last.rec.shape.dd) => ~last.rec.shape.ddBad

\* C6 as amended: on an entry with bit 3, done on a body at its end and skip return
\* to Ready whatever sizes the descriptor carries: they read the 12 bytes after the
\* body, and 4 more when those begin with the descriptor signature, and compare none.
C6_DescriptorNotCompared ==
    (Closed /\ last.rec.shape.dd /\ (last.op = "done" => ~last.unread)) =>
        /\ last.st = "Ready"
        /\ "Ready" \in live
        /\ last.dd = DATA_DESCRIPTOR_LENGTH
                     + (IF last.rec.shape.ddSig THEN SIGNATURE_LENGTH ELSE 0)

\* A signed descriptor whose compressed size is not the size of the body was consumed.
C6_Witness ==
    /\ Closed
    /\ last.st = "Ready"
    /\ last.rec.shape.dd
    /\ last.rec.shape.ddBad
    /\ last.rec.shape.ddSig

\* C7: next-entry on a local header with bit 3 set and the Stored method fails with
\* CannotReadDataDescriptorWithStored and leaves no reader; no Reading reader ever
\* holds a Stored body without a bound.
C7_StoredDescriptor ==
    /\ (/\ last.op = "next"
        /\ last.at = last.rec.start
        /\ last.rec.what = "entry"
        /\ last.rec.shape.dd
        /\ last.rec.shape.method = STORED) =>
           /\ last.st = "Err"
           /\ last.err = "CannotReadDataDescriptorWithStored"
           /\ live = {}
    /\ "Reading" \in live =>
           ~(reading.has_data_descriptor /\ reading.reader.compression = STORED)

\* next-entry met a Stored entry with bit 3.
C7_Witness ==
    /\ last.op = "next"
    /\ last.err = "CannotReadDataDescriptorWithStored"
    /\ last.rec.shape.method = STORED
    /\ last.rec.shape.dd

\* C8: next-entry reads one 4-byte signature; on LFH_SIGNATURE it opens the entry
\* (or reports what is wrong with its header); on CDH_SIGNATURE or EOCDR_SIGNATURE it
\* returns the end of the entries with those 4 bytes consumed and no more; on any
\* other signature it fails with UnexpectedHeaderError.  A CentralDirectoryReader
\* built after the end on a CDH_SIGNATURE parses, on its first call, the record that
\* starts right after that signature.
C8_SignatureDispatch ==
    /\ (last.op = "next" /\ Len(last.sig) = SIGNATURE_LENGTH) =>
           /\ pos = last.at + last.n
           /\ last.sig = to_le_bytes32(LFH_SIGNATURE) =>
                  \/ last.st = "Some" /\ live = {"Reading"}
                  \/ last.st = "Err" /\ last.err = "CannotReadDataDescriptorWithStored"
           /\ last.sig \in {to_le_bytes32(CDH_SIGNATURE), to_le_bytes32(EOCDR_SIGNATURE)} =>
                  last.st = "None" /\ last.n = SIGNATURE_LENGTH /\ ended
           /\ last.sig \notin {to_le_bytes32(LFH_SIGNATURE), to_le_bytes32(CDH_SIGNATURE),
                               to_le_bytes32(EOCDR_SIGNATURE)} =>
                  /\ last.st = "Err"
                  /\ last.err = "UnexpectedHeaderError"
                  /\ last.n = SIGNATURE_LENGTH
    /\ (last.op = "next" /\ last.st \in {"Some", "None"}) => Len(last.sig) = SIGNATURE_LENGTH
    /\ (last.op = "cd_new" /\ last.sig = to_le_bytes32(CDH_SIGNATURE)) =>
           (cur.what = "cd" /\ pos = cur.start + SIGNATURE_LENGTH)
    /\ (last.op = "cd_next" /\ last.first /\ last.sig = to_le_bytes32(CDH_SIGNATURE)) =>
           IF last.rec.shape.badExtra
           THEN /\ last.error = Error2("InvalidExtraFieldHeader", 9, <<>>)
                /\ last.n = CDH_LENGTH + Len(TruncatedExtra)
           ELSE /\ last.st = "Entry"
                /\ last.n = CDH_LENGTH + last.cdentry.file_name_length
                            + last.cdentry.extra_field_length

\* The first call of a CentralDirectoryReader built where next-entry met CDH_SIGNATURE.
C8_Witness ==
    /\ last.op = "cd_next"
    /\ last.first
    /\ last.sig = to_le_bytes32(CDH_SIGNATURE)
    /\ last.st = "Entry"

\* C9: when CentralDirectoryReader::next returns an entry it has consumed the whole
\* record: 42 + file name + extra field + file comment bytes, and the 4-byte signature
\* on a call that is not the first.
C9_CdRecordConsumed ==
    (last.op = "cd_next" /\ last.st = "Entry") =>
        last.n = (IF last.first THEN 0 ELSE SIGNATURE_LENGTH) + CDH_LENGTH
                 + last.cdentry.file_name_length + last.cdentry.extra_field_length
                 + last.cdentry.file_comment_length

\* C10: over a well-formed archive of n >= 1 directory records, a
\* CentralDirectoryReader built right after the first CDH_SIGNATURE returns an entry
\* on each of its first n calls and the end record on call n + 1, with the archive
\* comment, the source consumed to the end of that comment.
C10_CdSequence ==
    (/\ last.op = "cd_next"
     /\ last.good
     /\ last.sig = to_le_bytes32(CDH_SIGNATURE)
     /\ cdCalls <= wEntries + 1
     /\ wellFormed) =>
        IF cdCalls <= wEntries
        THEN last.st = "Entry"
        ELSE /\ cdCalls = wEntries + 1
             /\ last.st = "End"
             /\ cur.what = "tail"
             /\ last.comment.raw = Repeat(100, cur.shape.commentLen)
             /\ src = <<>>
             /\ eof

\* A call of CentralDirectoryReader::next that was not the first and read a signature.
ReadSignature ==
    last.op = "cd_next" /\ ~last.first /\ Len(last.head) = SIGNATURE_LENGTH

\* The signature it read is that of the ZIP64 end record the source delivered last.
ReadZip64End ==
    /\ ReadSignature
    /\ last.head = to_le_bytes32(ZIP64_EOCDR_SIGNATURE)
    /\ last.rec.what = "tail"

\* The relative_offset of the locator the source wrote after the ZIP64 end record.
LocatorOffset ==
    last.rec.start + (IF last.rec.shape.tail = "badOffset" THEN 1 ELSE 0)

\* C15: for a reader built with the position of the first directory record's signature,
\* the stream being just after that signature, the locator check of the ZIP64 branch
\* passes exactly when the locator's relative_offset is the position at which the
\* ZIP64 end record's signature started, whatever records were read before it; when it
\* is not, next fails with InvalidZip64EndOfCentralDirectoryLocatorOffset(found, expected).
C15_LocatorOffset ==
    (ReadZip64End /\ last.good /\ last.rec.shape.tail # "noLocator") =>
        IF LocatorOffset = last.at
        THEN /\ last.err # "InvalidZip64EndOfCentralDirectoryLocatorOffset"
             /\ last.rec.shape.tail = "ok" => last.st = "End"
        ELSE /\ last.st = "Err"
             /\ last.error = Error2("InvalidZip64EndOfCentralDirectoryLocatorOffset",
                                    to_le_bytes64(LocatorOffset), to_le_bytes64(last.at))

\* The check passed on the third call, after two directory records were read.
C15_Witness ==
    /\ ReadZip64End
    /\ last.good
    /\ cdCalls = 3
    /\ LocatorOffset = last.at
    /\ last.at > SIGNATURE_LENGTH + CDH_LENGTH
    /\ last.st = "End"

\* C16: a call of next that is not the first dispatches on the signature it reads: the
\* CDH signature gives an entry, the EOCDR signature the end record; the ZIP64 EOCDR
\* signature asks, in this order, for the 52-byte record, a locator (else
\* MissingZip64EndOfCentralDirectoryLocator), a matching locator offset, the EOCDR
\* signature (else UnexpectedHeader(found, EOCDR_SIGNATURE)), the EOCDR body and the
\* comment; any other signature fails with UnexpectedHeader(found, CDH_SIGNATURE).
C16_Dispatch ==
    ReadSignature =>
        IF last.head = to_le_bytes32(CDH_SIGNATURE) THEN last.st = "Entry"
        ELSE IF last.head = to_le_bytes32(EOCDR_SIGNATURE)
        THEN last.st = "End" /\ ~last.record.zip64
        ELSE IF last.head = to_le_bytes32(ZIP64_EOCDR_SIGNATURE)
        THEN /\ last.rec.what = "tail"
             /\ IF last.rec.shape.tail = "noLocator"
                THEN last.error = Error("MissingZip64EndOfCentralDirectoryLocator")
                ELSE IF ~last.good \/ last.rec.shape.tail = "badOffset"
                THEN last.err = "InvalidZip64EndOfCentralDirectoryLocatorOffset"
                ELSE IF last.rec.shape.tail = "badEocdr"
                THEN last.error = Error2("UnexpectedHeaderError", GarbageBytes,
                                         to_le_bytes32(EOCDR_SIGNATURE))
                ELSE /\ last.st = "End"
                     /\ last.record.zip64
                     /\ last.comment.raw = Repeat(100, last.rec.shape.commentLen)
                     /\ src = <<>>
        ELSE /\ last.st = "Err"
             /\ last.error = Error2("UnexpectedHeaderError", last.head,
                                    to_le_bytes32(CDH_SIGNATURE))

\* The ZIP64 end record was read and no locator followed it.
C16_Witness ==
    /\ ReadZip64End
    /\ last.rec.shape.tail = "noLocator"
    /\ last.st = "Err"
    /\ last.err = "MissingZip64EndOfCentralDirectoryLocator"

C23_Fatal ==
    /\ (last.op \in {"next", "done", "skip"} /\ last.st = "Err") => live = {}
    /\ (last.op = "cd_next" /\ last.after) => last.st \notin {"Entry", "End"}

\* The first call of next on a reader, after next-entry ended the entries on `signature`.
FirstCallAfter(signature) ==
    last.op = "cd_next" /\ last.first /\ last.sig = to_le_bytes32(signature)

\* C30: the first call of CentralDirectoryReader::next inspects no signature: it clears
\* `initial`, also when it then fails, and parses the bytes it finds as a directory
\* record whatever signature the streaming reader consumed before it.  After the
\* entries ended on EOCDR_SIGNATURE (an archive without entries) it does not return the
\* end record: it takes the EOCDR for a record's header and fails where the source ends.
C30_FirstCallParsesRecord ==
    /\ cdCalls >= 1 => ~cdr.initial
    /\ (last.op = "cd_next" /\ last.first) =>
           /\ cdCalls = 1
           /\ last.st \in {"Entry", "Err"}
           /\ last.err \in {"none", "Io", "InvalidExtraFieldHeader"}
           /\ last.st = "Entry" =>
                  last.n = CDH_LENGTH + last.cdentry.file_name_length
                           + last.cdentry.extra_field_length
    /\ FirstCallAfter(EOCDR_SIGNATURE) =>
           /\ last.rec.what = "tail"
           /\ last.st = "Err"
           /\ last.err = "Io"
           /\ last.n = EOCDR_LENGTH + last.rec.shape.commentLen
           /\ src = <<>>

\* An archive without entries: next-entry ended on the EOCDR signature, and the first
\* call of next failed having cleared `initial`.
C30_Witness ==
    /\ FirstCallAfter(EOCDR_SIGNATURE)
    /\ wEntries = 0
    /\ last.st = "Err"
    /\ ~cdr.initial

(* ------------- properties of the parser and the record reader ---------- *)

\* The record reader returned an entry for the given header and blob.
ReadEntry == parsed.op = "cd_next" /\ parsed.cd.st = "Entry"

\* The ZIP64 field the parser decodes from the given blob, if it decodes one.
GivenZip64 ==
    get_zip64_extra_field(
        parse_extra_fields(Blob(given), given.uncompressed_size, given.compressed_size,
            GivenOffset(given), GivenDisk(given)).fields)

\* The three reconciled values: the name of the header's field and of the entry's value,
\* and the name of the slot of the ZIP64 field.
Reconciled ==
    { [field |-> "compressed_size", slot |-> "compressed_size"],
      [field |-> "uncompressed_size", slot |-> "uncompressed_size"],
      [field |-> "lh_offset", slot |-> "relative_header_offset"] }

\* The given blob holds a ZIP64 field that carries the slot.
HasSlot(slot) == IsSome(GivenZip64) /\ IsSome(Unwrap(GivenZip64)[slot])
SlotValue(slot) == Unwrap(Unwrap(GivenZip64)[slot])

\* C11: for each of the compressed size, the uncompressed size and the local-header
\* offset of a directory entry: a 32-bit header field other than 0xFFFFFFFF is reported
\* as it is, widened to 64 bits, even when a ZIP64 field is present; a header field of
\* 0xFFFFFFFF whose slot the ZIP64 field carries is reported as that slot.
C11_Authoritative ==
    ReadEntry =>
        \A v \in Reconciled :
            /\ given[v.field] # NON_ZIP64_MAX_SIZE
                   => parsed.cd.entry[v.field] = as_u64(given[v.field])
            /\ (given[v.field] = NON_ZIP64_MAX_SIZE /\ HasSlot(v.slot))
                   => parsed.cd.entry[v.field] = SlotValue(v.slot)

\* An entry whose compressed size came from the ZIP64 field and whose uncompressed size
\* came from the header, the ZIP64 field being present.
C11_Witness ==
    /\ ReadEntry
    /\ given.compressed_size = NON_ZIP64_MAX_SIZE
    /\ given.uncompressed_size = to_le_bytes32(5)
    /\ HasSlot("compressed_size")
    /\ parsed.cd.entry.compressed_size = to_le_bytes64(11)
    /\ parsed.cd.entry.uncompressed_size = to_le_bytes64(5)

\* C12 as stated: an entry whose 32-bit field is 0xFFFFFFFF always reports a value read
\* from a ZIP64 slot of the same record, never the sentinel itself.
C12_NeverSentinel ==
    ReadEntry =>
        \A v \in Reconciled :
            given[v.field] = NON_ZIP64_MAX_SIZE
                => /\ HasSlot(v.slot)
                   /\ parsed.cd.entry[v.field] = SlotValue(v.slot)

\* C12: an entry whose 32-bit field is 0xFFFFFFFF reports the ZIP64 slot of the same
\* record when the record carries that slot, and the header's own 0xFFFFFFFF when the
\* record carries no ZIP64 slot for the field.
C12_SentinelOrSlot ==
    ReadEntry =>
        \A v \in Reconciled :
            given[v.field] = NON_ZIP64_MAX_SIZE
                => parsed.cd.entry[v.field] =
                       IF HasSlot(v.slot) THEN SlotValue(v.slot)
                       ELSE as_u64(NON_ZIP64_MAX_SIZE)

\* Both sizes are the sentinel and the ZIP64 field has eight bytes: the uncompressed size
\* is read from it and the compressed size is reported as 0xFFFFFFFF.
C12_Witness ==
    /\ ReadEntry
    /\ given.uncompressed_size = NON_ZIP64_MAX_SIZE
    /\ given.compressed_size = NON_ZIP64_MAX_SIZE
    /\ HasSlot("uncompressed_size")
    /\ ~HasSlot("compressed_size")
    /\ parsed.cd.entry.uncompressed_size = to_le_bytes64(11)
    /\ parsed.cd.entry.compressed_size = as_u64(NON_ZIP64_MAX_SIZE)

\* The parser returned for the given header and blob.
Parsed == parsed.op = "parse_extra_fields"

\* The blob opens with a ZIP64 record and holds no other one: what the ZIP64 decoder
\* returns for it is what the parser reports of it.
OneZip64First ==
    /\ Len(given.records) >= 1
    /\ \A i \in 1..Len(given.records) :
           (given.records[i].id = ZIP64_EXTENDED_INFORMATION_EXTRA_FIELD) <=> (i = 1)

Zip64Body == given.records[1].body

\* The header asks for a slot: its field holds the sentinel.
WantUncompressed == given.uncompressed_size = NON_ZIP64_MAX_SIZE
WantCompressed == given.compressed_size = NON_ZIP64_MAX_SIZE
WantOffset == given.owner = "central" /\ given.lh_offset = NON_ZIP64_MAX_SIZE
WantDisk == given.owner = "central" /\ given.disk_start = DISK_SENTINEL

\* Where the body has been consumed up to, after each slot in the fixed order.
EndUncompressed == IF WantUncompressed /\ Len(Zip64Body) >= 8 THEN 8 ELSE 0
EndCompressed ==
    IF WantCompressed /\ Len(Zip64Body) >= EndUncompressed + 8
    THEN EndUncompressed + 8 ELSE EndUncompressed
EndOffset ==
    IF WantOffset /\ Len(Zip64Body) >= EndCompressed + 8
    THEN EndCompressed + 8 ELSE EndCompressed
EndDisk ==
    IF WantDisk /\ Len(Zip64Body) >= EndOffset + 4 THEN EndOffset + 4 ELSE EndOffset

\* The slot between two ends: the bytes read there, or None when nothing was read.
SlotBetween(from, to) == IF to > from THEN Some(Slice(Zip64Body, from, to)) ELSE None

\* The four slots of the decoded ZIP64 field are those a header-driven decode gives.
ConditionalSlots(f) ==
    /\ f.uncompressed_size = SlotBetween(0, EndUncompressed)
    /\ f.compressed_size = SlotBetween(EndUncompressed, EndCompressed)
    /\ f.relative_header_offset = SlotBetween(EndCompressed, EndOffset)
    /\ f.disk_start_number = SlotBetween(EndOffset, EndDisk)

\* C13 as stated: every ZIP64 field the parser returns holds exactly the slots the
\* header asked for, read in the fixed order, and None for every other slot.
C13_OnlyRequested ==
    (Parsed /\ OneZip64First /\ parsed.fields.ok) => ConditionalSlots(parsed.fields.fields[1])

\* C13: a ZIP64 field the parser returns holds exactly the slots the header asked for
\* and the body had bytes for, read in the order uncompressed size, compressed size,
\* offset, disk number, and None for every other slot, except when the 16-byte fallback
\* took it, which reports the two sizes of the body though the header asked for none.
C13_ConditionalOrder ==
    (Parsed /\ OneZip64First /\ parsed.fields.ok) =>
        IF EndDisk = Len(Zip64Body)
        THEN ConditionalSlots(parsed.fields.fields[1])
        ELSE /\ Len(Zip64Body) = 16
             /\ parsed.fields.fields[1].uncompressed_size = Some(Slice(Zip64Body, 0, 8))
             /\ parsed.fields.fields[1].compressed_size = Some(Slice(Zip64Body, 8, 16))
             /\ parsed.fields.fields[1].relative_header_offset = None
             /\ parsed.fields.fields[1].disk_start_number = None

\* Only the compressed size and the offset hold the sentinel: the first eight bytes of
\* the body go to the compressed size, the next eight to the offset.
C13_Witness ==
    /\ Parsed /\ OneZip64First /\ parsed.fields.ok
    /\ ~WantUncompressed /\ WantCompressed /\ WantOffset /\ ~WantDisk
    /\ parsed.fields.fields[1].uncompressed_size = None
    /\ parsed.fields.fields[1].compressed_size = Some(to_le_bytes64(11))
    /\ parsed.fields.fields[1].relative_header_offset = Some(to_le_bytes64(12))
    /\ parsed.fields.fields[1].disk_start_number = None

\* The 16 bytes of the body repeat the two sizes of the header.
RepeatsSizes ==
    /\ Len(Zip64Body) = 16
    /\ Slice(Zip64Body, 0, 8) = as_u64(given.uncompressed_size)
    /\ Slice(Zip64Body, 8, 16) = as_u64(given.compressed_size)

\* Parsing failed with Zip64ExtendedInformationFieldTooLong{expected: L, actual: consumed}.
TooLong ==
    /\ parsed.fields.err.kind = "Zip64ExtendedInformationFieldTooLong"
    /\ parsed.fields.err.a = Len(Zip64Body)
    /\ parsed.fields.err.b = EndDisk

\* C14 as stated: a ZIP64 field whose body the conditional decode did not consume whole
\* is accepted when it has 16 bytes, none was consumed, the header holds no sentinel
\* in its offset and disk number, and the body repeats the header's sizes; otherwise
\* parsing fails with Zip64ExtendedInformationFieldTooLong{L, consumed}.
C14_FallbackUnlessRequested ==
    (Parsed /\ OneZip64First /\ EndDisk # Len(Zip64Body)) =>
        IF EndDisk = 0 /\ ~WantOffset /\ ~WantDisk /\ RepeatsSizes
        THEN parsed.fields.err.kind # "Zip64ExtendedInformationFieldTooLong"
        ELSE TooLong

\* C14: a ZIP64 field whose body the conditional decode did not consume whole is
\* accepted when it has 16 bytes, none was consumed, the header passed no offset and no
\* disk number at all (a local file header) and the body repeats the header's sizes;
\* otherwise, and so for every central-directory record, parsing fails with
\* Zip64ExtendedInformationFieldTooLong{L, consumed}.
C14_FallbackOfLocalHeader ==
    (Parsed /\ OneZip64First /\ EndDisk # Len(Zip64Body)) =>
        IF EndDisk = 0 /\ given.owner = "local" /\ RepeatsSizes
        THEN parsed.fields.err.kind # "Zip64ExtendedInformationFieldTooLong"
        ELSE TooLong

\* A local header's 16-byte field that repeats its sizes is accepted, and the field
\* reports them.
C14_Witness ==
    /\ Parsed /\ OneZip64First /\ parsed.fields.ok
    /\ given.owner = "local"
    /\ EndDisk = 0 /\ RepeatsSizes
    /\ parsed.fields.fields[1].uncompressed_size = Some(to_le_bytes64(5))
    /\ parsed.fields.fields[1].compressed_size = Some(to_le_bytes64(6))

\* The parse of the records of the blob alone, without what follows them.
RecordsParse ==
    parse_extra_fields(RecordsBytes(given.records), given.uncompressed_size,
        given.compressed_size, GivenOffset(given), GivenDisk(given))

\* C17: the walk over the blob fails with InvalidExtraFieldHeader(size) exactly when it
\* comes to a record header, four bytes of which the blob holds, that declares more
\* bytes than the blob holds after it; a blob whose every record fits, trailing bytes
\* too few for a header included, never fails so.
C17_InvalidHeader ==
    Parsed =>
        /\ parsed.fields.err.kind = "InvalidExtraFieldHeader"
               => (given.rest = OverRest /\ parsed.fields.err.a = 2)
        /\ (given.rest = OverRest /\ RecordsParse.ok)
               => (parsed.fields.err.kind = "InvalidExtraFieldHeader"
                   /\ parsed.fields.err.a = 2)
        /\ (given.rest # OverRest) => parsed.fields = RecordsParse

\* Two records that fit and decode, then a header that declares two bytes where one is left.
C17_Witness ==
    /\ Parsed
    /\ Len(given.records) = 2
    /\ given.rest = OverRest
    /\ parsed.fields.err.kind = "InvalidExtraFieldHeader"
    /\ parsed.fields.err.a = 2

\* Two records of the blob carry the same header ID.
Repeated ==
    \E i, j \in 1..Len(given.records) : i < j /\ given.records[i].id = given.records[j].id

\* The second record of the earliest repeat.
FirstRepeat ==
    CHOOSE j \in 1..Len(given.records) :
        /\ \E i \in 1..(j - 1) : given.records[i].id = given.records[j].id
        /\ \A k \in 1..(j - 1) : \A i \in 1..(k - 1) : given.records[i].id # given.records[k].id

\* The record decodes on its own under the given header.
Decodes(r) ==
    extra_field_from_bytes(r.id, r.size, r.body, given.uncompressed_size,
        given.compressed_size, GivenOffset(given), GivenDisk(given)).ok

\* The returned list has one field for each record of the blob, in its order, and no
\* header ID twice.
DistinctInOrder ==
    /\ Len(parsed.fields.fields) = Len(given.records)
    /\ \A i \in 1..Len(given.records) : parsed.fields.fields[i].header_id = given.records[i].id
    /\ \A i, j \in 1..Len(parsed.fields.fields) :
           i # j => parsed.fields.fields[i].header_id # parsed.fields.fields[j].header_id

DuplicateOf(id) ==
    /\ parsed.fields.err.kind = "DuplicateExtraFieldHeader"
    /\ parsed.fields.err.a = id

\* C18 as stated: a returned list has pairwise-distinct header IDs in blob order, and
\* every blob in which a header ID occurs twice fails with DuplicateExtraFieldHeader(id).
C18_RepeatAlwaysDuplicate ==
    Parsed =>
        /\ parsed.fields.ok => DistinctInOrder
        /\ Repeated => DuplicateOf(given.records[FirstRepeat].id)

\* C18: a returned list has pairwise-distinct header IDs in blob order, and a blob in
\* which a header ID occurs twice fails with DuplicateExtraFieldHeader(id) when every
\* record up to and including the second occurrence decodes; a record that does not
\* decode fails the parse with its own error before the guard is reached.
C18_DistinctOrDuplicate ==
    Parsed =>
        /\ parsed.fields.ok => DistinctInOrder
        /\ (Repeated /\ \A k \in 1..FirstRepeat : Decodes(given.records[k]))
               => DuplicateOf(given.records[FirstRepeat].id)
        /\ (Repeated /\ parsed.fields.err.kind = "DuplicateExtraFieldHeader")
               => DuplicateOf(given.records[FirstRepeat].id)

\* Two ZIP64 records of eight bytes under a header whose uncompressed size alone is the
\* sentinel: both decode, and the second is refused as a duplicate of ID 1.
C18_Witness ==
    /\ Parsed
    /\ Len(given.records) = 2
    /\ given.records[1] = ExtraRecord(ZIP64_EXTENDED_INFORMATION_EXTRA_FIELD, to_le_bytes64(11))
    /\ given.records[2] = given.records[1]
    /\ DuplicateOf(ZIP64_EXTENDED_INFORMATION_EXTRA_FIELD)

KnownIds ==
    { ZIP64_EXTENDED_INFORMATION_EXTRA_FIELD, INFO_ZIP_UNICODE_COMMENT_EXTRA_FIELD,
      INFO_ZIP_UNICODE_PATH_EXTRA_FIELD }

\* id || size || content of an Unknown field, little-endian.
Encode(f) == to_le_bytes16(f.header_id) \o to_le_bytes16(f.data_size) \o f.content

\* Where the i-th record of the blob starts.
RecordStart(i) == Len(RecordsBytes(SubSeq(given.records, 1, i - 1)))

\* C19: a record whose header ID is none of the three known ones decodes to an Unknown
\* field holding the record's ID, declared size and body, and encoding that field as
\* id || size || content gives back the bytes of the record in the blob.
C19_UnknownRoundTrip ==
    (Parsed /\ parsed.fields.ok) =>
        /\ Len(parsed.fields.fields) = Len(given.records)
        /\ \A i \in 1..Len(given.records) :
               given.records[i].id \notin KnownIds =>
                   /\ parsed.fields.fields[i].variant = "Unknown"
                   /\ parsed.fields.fields[i].header_id = given.records[i].id
                   /\ parsed.fields.fields[i].data_size = given.records[i].size
                   /\ parsed.fields.fields[i].content = given.records[i].body
                   /\ Encode(parsed.fields.fields[i]) =
                          Slice(Blob(given), RecordStart(i),
                                RecordStart(i) + 4 + given.records[i].size)

\* A record of ID 9 with a one-byte body, after another record, comes back as it went in.
C19_Witness ==
    /\ Parsed /\ parsed.fields.ok
    /\ Len(given.records) = 2
    /\ given.records[2] = ExtraRecord(9, <<7>>)
    /\ parsed.fields.fields[2].variant = "Unknown"
    /\ Encode(parsed.fields.fields[2]) = <<9, 0, 1, 0, 7>>

\* The blob opens with an InfoZIP Unicode Path or Comment record.
InfoZipFirst ==
    /\ Len(given.records) >= 1
    /\ given.records[1].id \in
           {INFO_ZIP_UNICODE_PATH_EXTRA_FIELD, INFO_ZIP_UNICODE_COMMENT_EXTRA_FIELD}

InfoZipBody == given.records[1].body

\* The variant and the error of the decoder of the record's ID.
InfoZipVariant ==
    IF given.records[1].id = INFO_ZIP_UNICODE_PATH_EXTRA_FIELD
    THEN "InfoZipUnicodePath" ELSE "InfoZipUnicodeComment"
InfoZipIncomplete ==
    IF given.records[1].id = INFO_ZIP_UNICODE_PATH_EXTRA_FIELD
    THEN "InfoZipUnicodePathFieldIncomplete" ELSE "InfoZipUnicodeCommentFieldIncomplete"

\* C20: an InfoZIP Unicode Path or Comment body that is empty, or of version 1 with
\* fewer than five bytes, fails with the FieldIncomplete error of its kind; version 1
\* with five bytes or more gives V1 with crc32 = bytes 1..5 and unicode = every byte
\* after them; any other version gives Unknown with that version and every byte after
\* the version byte.
C20_InfoZipUnicode ==
    (Parsed /\ InfoZipFirst) =>
        IF Len(InfoZipBody) = 0 \/ (InfoZipBody[1] = 1 /\ Len(InfoZipBody) < 5)
        THEN parsed.fields.err.kind = InfoZipIncomplete
        ELSE /\ (Len(given.records) = 1 /\ given.rest # OverRest) => parsed.fields.ok
             /\ parsed.fields.ok =>
                    /\ parsed.fields.fields[1].variant = InfoZipVariant
                    /\ parsed.fields.fields[1].version = InfoZipBody[1]
                    /\ IF InfoZipBody[1] = 1
                       THEN /\ parsed.fields.fields[1].crc32 = Slice(InfoZipBody, 1, 5)
                            /\ parsed.fields.fields[1].unicode =
                                   Slice(InfoZipBody, 5, Len(InfoZipBody))
                       ELSE parsed.fields.fields[1].content =
                                Slice(InfoZipBody, 1, Len(InfoZipBody))

\* A Unicode Path body of version 1, a CRC and one byte of text.
C20_Witness ==
    /\ Parsed /\ parsed.fields.ok
    /\ InfoZipFirst
    /\ given.records[1].id = INFO_ZIP_UNICODE_PATH_EXTRA_FIELD
    /\ InfoZipBody = <<1, 1, 2, 3, 4, 120>>
    /\ parsed.fields.fields[1].version = 1
    /\ parsed.fields.fields[1].crc32 = <<1, 2, 3, 4>>
    /\ parsed.fields.fields[1].unicode = <<120>>

\* The records of the blob that are an InfoZIP Unicode Path field of version 1.
PathV1 ==
    { i \in 1..Len(given.records) :
        /\ given.records[i].id = INFO_ZIP_UNICODE_PATH_EXTRA_FIELD
        /\ Len(given.records[i].body) >= 5
        /\ given.records[i].body[1] = 1 }

\* C21: the filename of a record is its raw bytes tagged UTF-8 when bit 11 of the flags
\* is set, whether or not a Unicode Path field is present; with bit 11 clear it is the
\* text of a version-1 InfoZIP Unicode Path field when the record has one, whatever CRC
\* the field carries; otherwise it is the raw bytes tagged CP437.
C21_FilenameSelection ==
    ReadEntry =>
        IF (given.flags \div FILENAME_UNICODE) % 2 = 1
        THEN parsed.cd.entry.filename = [raw |-> GivenName, encoding |-> "Utf8"]
        ELSE IF PathV1 # {}
        THEN \E i \in PathV1 :
                 parsed.cd.entry.filename =
                     [raw |-> Slice(given.records[i].body, 5, Len(given.records[i].body)),
                      encoding |-> "Utf8"]
        ELSE parsed.cd.entry.filename = [raw |-> GivenName, encoding |-> "Cp437"]

\* Bit 11 is clear and the Unicode Path field carries a CRC that is not that of the
\* name: the text of the field is reported.
C21_Witness ==
    /\ ReadEntry
    /\ given.flags = 0
    /\ Len(given.records) = 2
    /\ given.records[2] = ExtraRecord(INFO_ZIP_UNICODE_PATH_EXTRA_FIELD, <<1, 1, 2, 3, 4, 120>>)
    /\ parsed.cd.entry.filename = [raw |-> <<120>>, encoding |-> "Utf8"]

\* The errors parse_extra_fields declares.
DeclaredErrors ==
    {"InvalidExtraFieldHeader", "DuplicateExtraFieldHeader",
     "Zip64ExtendedInformationFieldTooLong", "InfoZipUnicodeCommentFieldIncomplete",
     "InfoZipUnicodePathFieldIncomplete"}

\* C26: for every blob and every combination of header arguments, parse_extra_fields
\* returns Ok or one of its declared errors and never indexes out of range: it does
\* not panic, and it has made one turn of its loop for each field it returns, each turn
\* over at least the four bytes of a record header.
C26_NeverPanics ==
    Parsed =>
        /\ parsed.fields.err.kind # "Panic"
        /\ IF parsed.fields.ok
           THEN /\ parsed.fields.err = NoError
                /\ 4 * Len(parsed.fields.fields) <= Len(Blob(given))
           ELSE parsed.fields.err.kind \in DeclaredErrors

\* The parser met a record that announces more bytes than the blob holds, after an
\* InfoZIP field whose text is empty, and returned InvalidExtraFieldHeader.
C26_Witness ==
    /\ Parsed
    /\ InfoZipFirst
    /\ Len(InfoZipBody) = 5
    /\ given.rest = OverRest
    /\ parsed.fields.err = Error2("InvalidExtraFieldHeader", 2, <<>>)

(* -------------------- properties of the record codecs ------------------- *)

\* The call of the codec specification that was made.
Decoded(op) == parsed.op = op /\ given.codec = op

\* C24: the ZIP64 end record is decoded from its 52-byte body as little-endian scalars
\* at fixed offsets (size @0, version made by @8, version needed @10, disk @12, disk of
\* the directory start @16, entries on the disk @20, entries @28, directory size @36,
\* directory offset @44), and as_bytes is the inverse of the decoding in both directions.
C24_Zip64EocdrRoundTrip ==
    Decoded("zip64_eocdr") =>
        /\ parsed.record =
             [size_of_zip64_end_of_cd_record |-> SubSeq(given.bytes, 1, 8),
              version_made_by |-> given.bytes[9] + 256 * given.bytes[10],
              version_needed_to_extract |-> given.bytes[11] + 256 * given.bytes[12],
              disk_number |-> SubSeq(given.bytes, 13, 16),
              disk_number_start_of_cd |-> SubSeq(given.bytes, 17, 20),
              num_entries_in_directory_on_disk |-> SubSeq(given.bytes, 21, 28),
              num_entries_in_directory |-> SubSeq(given.bytes, 29, 36),
              directory_size |-> SubSeq(given.bytes, 37, 44),
              offset_of_start_of_directory |-> SubSeq(given.bytes, 45, 52)]
        /\ Len(parsed.bytes) = ZIP64_EOCDR_LENGTH
        /\ parsed.decoded = given.record
        /\ parsed.encoded = given.bytes

\* The body of test_parse_zip64_eocdr decoded to the record the test expects, and a
\* record whose two counts of entries differ was encoded and decoded.
C24_Witness ==
    /\ Decoded("zip64_eocdr")
    /\ given.bytes = FixtureBody
    /\ parsed.record.version_made_by = 798
    /\ parsed.record.offset_of_start_of_directory = to_le_bytes64(64)
    /\ given.record.num_entries_in_directory_on_disk # given.record.num_entries_in_directory
    /\ parsed.decoded = given.record

\* The source of a locator read holds at least n bytes.
Holds(n) == Len(given.bytes) >= n

\* C25: try_from_reader reads 4 bytes; when they are the locator signature it reads 16
\* more and returns the locator decoded from them (disk @0, relative offset @4, total
\* disks @12), 20 bytes consumed; when they are anything else it returns None with those
\* 4 bytes consumed; a source that ends before the bytes it asks for gives an I/O error.
C25_TryFromReader ==
    Decoded("locator") =>
        IF ~Holds(SIGNATURE_LENGTH) THEN parsed.result.st = "eof"
        ELSE IF SubSeq(given.bytes, 1, 4) # <<80, 75, 6, 7>>
        THEN /\ parsed.result.st = "ok"
             /\ parsed.result.locator = None
             /\ parsed.result.n = SIGNATURE_LENGTH
        ELSE IF ~Holds(SIGNATURE_LENGTH + ZIP64_EOCDL_LENGTH) THEN parsed.result.st = "eof"
        ELSE /\ parsed.result.st = "ok"
             /\ parsed.result.n = SIGNATURE_LENGTH + ZIP64_EOCDL_LENGTH
             /\ parsed.result.locator =
                  Some([number_of_disk_with_start_of_zip64_end_of_central_directory |->
                            SubSeq(given.bytes, 5, 8),
                        relative_offset |-> SubSeq(given.bytes, 9, 16),
                        total_number_of_disks |-> SubSeq(given.bytes, 17, 20)])

\* The locator of test_parse_zip64_eocdl was read from a source that goes on after it.
C25_Witness ==
    /\ Decoded("locator")
    /\ Len(given.bytes) > SIGNATURE_LENGTH + ZIP64_EOCDL_LENGTH
    /\ IsSome(parsed.result.locator)
    /\ Unwrap(parsed.result.locator).relative_offset = to_le_bytes64(111)
    /\ Unwrap(parsed.result.locator).total_number_of_disks = to_le_bytes32(1)
    /\ parsed.result.n = SIGNATURE_LENGTH + ZIP64_EOCDL_LENGTH

\* A descriptor was written by as_bytes and read back by from_reader.
ReadBack == Decoded("descriptor") \/ Decoded("zip64_descriptor")

\* The CRC of the given descriptor is the value of the optional signature.
CrcIsSignature == given.descriptor.crc = to_le_bytes32(DATA_DESCRIPTOR_SIGNATURE)

\* from_reader returned the given descriptor having consumed the bytes of as_bytes.
ReturnsGiven ==
    /\ parsed.result.st = "ok"
    /\ parsed.result.descriptor = given.descriptor
    /\ parsed.result.n = Len(parsed.bytes)

\* C29 as claimed: for every descriptor, from_reader over the 12 (ZIP64: 20) bytes of
\* as_bytes returns it having consumed exactly those bytes, a CRC of 0x08074B50 included.
C29_DescriptorRoundTrip ==
    ReadBack =>
        /\ Len(parsed.bytes) = (IF Decoded("descriptor") THEN DATA_DESCRIPTOR_LENGTH
                                ELSE ZIP64_DATA_DESCRIPTOR_LENGTH)
        /\ ReturnsGiven

\* C29 amended: for every descriptor whose CRC is not 0x08074B50, from_reader over the
\* 12 (ZIP64: 20) bytes of as_bytes returns it having consumed exactly those bytes.  When
\* the CRC is 0x08074B50 from_reader takes it for the optional signature and asks for 4
\* bytes more than as_bytes wrote: it fails with an I/O error when the source ends
\* before them, and consumes them otherwise.
C29_RoundTripUnlessSignature ==
    ReadBack =>
        /\ Len(parsed.bytes) = (IF Decoded("descriptor") THEN DATA_DESCRIPTOR_LENGTH
                                ELSE ZIP64_DATA_DESCRIPTOR_LENGTH)
        /\ IF ~CrcIsSignature THEN ReturnsGiven
           ELSE IF Len(given.rest) < SIGNATURE_LENGTH THEN parsed.result.st = "eof"
           ELSE /\ parsed.result.st = "ok"
                /\ parsed.result.n = Len(parsed.bytes) + SIGNATURE_LENGTH

\* A descriptor whose CRC is 0x08074B50 was read back from exactly its own bytes, and
\* the read failed.
C29_Witness ==
    /\ Decoded("descriptor")
    /\ CrcIsSignature
    /\ given.rest = <<>>
    /\ Len(parsed.bytes) = DATA_DESCRIPTOR_LENGTH
    /\ parsed.result.st = "eof"

\* A call of next was made on a source of the given kind.
ReadNext(what) == Decoded("next") /\ given.what = what

\* The bytes the source held beyond the first n.
Beyond(n) == IF Len(given.bytes) > n THEN Len(given.bytes) - n ELSE 0

\* C27: read_bytes (and read_string) returns Ok with the first min(n, bytes remaining)
\* bytes and consumes no more: a source that ends early is no error, so a directory
\* record's file name and extra field and the archive comment come back shorter than
\* declared, with no I/O failure, when the source ends inside them.
C27_ReadBytesShort ==
    /\ Decoded("read_bytes") =>
           /\ parsed.result.st = "ok"
           /\ parsed.result.n = Min(given.length, Len(given.bytes))
           /\ parsed.result.bytes = SubSeq(given.bytes, 1, Min(given.length, Len(given.bytes)))
    /\ ReadNext("record") =>
           /\ parsed.result.err.kind \in {"none", "InvalidExtraFieldHeader"}
           /\ parsed.result.n = Len(given.bytes)
           /\ parsed.result.st = "Entry" =>
                  /\ parsed.result.entry.file_name_length = 2
                  /\ parsed.result.entry.filename.raw =
                         SubSeq(<<97, 98>>, 1, Min(2, Beyond(CDH_LENGTH)))
    /\ ReadNext("end") =>
           /\ parsed.result.st = "End"
           /\ parsed.result.n = Len(given.bytes)
           /\ parsed.result.comment.raw =
                  SubSeq(<<100, 101, 102>>, 1, Beyond(SIGNATURE_LENGTH + EOCDR_LENGTH))

\* The source ended after the first of the two bytes of a record's file name, and next
\* returned the entry with a name of one byte.
C27_Witness ==
    /\ ReadNext("record")
    /\ Len(given.bytes) = CDH_LENGTH + 1
    /\ parsed.result.st = "Entry"
    /\ parsed.result.entry.file_name_length = 2
    /\ parsed.result.entry.filename.raw = <<97>>

\* The four bytes that follow the 52 bytes of a ZIP64 end record in the source.
AfterBody ==
    SubSeq(given.bytes, SIGNATURE_LENGTH + ZIP64_EOCDR_LENGTH + 1,
           SIGNATURE_LENGTH + ZIP64_EOCDR_LENGTH + SIGNATURE_LENGTH)

\* C28: in the ZIP64 branch next reads 52 bytes after the ZIP64 EOCDR signature and
\* tests the 4 bytes that follow them as the locator signature, whatever the record's
\* size field holds: extensible data is not skipped, so a record followed by
\* extensible data fails on its first bytes, or has them read as the locator.
C28_FixedBody ==
    ReadNext("zip64") =>
        IF AfterBody # to_le_bytes32(ZIP64_EOCDL_SIGNATURE)
        THEN /\ parsed.result.err.kind = "MissingZip64EndOfCentralDirectoryLocator"
             /\ parsed.result.n = SIGNATURE_LENGTH + ZIP64_EOCDR_LENGTH + SIGNATURE_LENGTH
        ELSE IF given.ext = <<>>
        THEN /\ parsed.result.st = "End"
             /\ parsed.result.record.zip64
             /\ parsed.result.n = Len(given.bytes)
        ELSE /\ parsed.result.err.kind = "InvalidZip64EndOfCentralDirectoryLocatorOffset"
             /\ parsed.result.n = SIGNATURE_LENGTH + ZIP64_EOCDR_LENGTH + SIGNATURE_LENGTH
                                  + ZIP64_EOCDL_LENGTH

\* A record that declares four bytes of extensible data and holds them: next failed on
\* them, 60 bytes into the call.
C28_Witness ==
    /\ ReadNext("zip64")
    /\ given.size = ZIP64_EOCDR_LENGTH - 8 + 4
    /\ given.ext = <<1, 2, 3, 4>>
    /\ parsed.result.err.kind = "MissingZip64EndOfCentralDirectoryLocator"
    /\ parsed.result.n = 60

====
